---------------------------- MODULE Spec2Model ----------------------------
(***************************************************************************)
(* A model of the labware-scripts command line tools.  Every script is a   *)
(* batch loop over files (or CSV bands); the model has one family of       *)
(* variables and one specification per script:                             *)
(*                                                                         *)
(*   SpecGeometry   import_frusta_from_hw.to_geometry_def on its own       *)
(*   SpecFrusta     import_frusta_from_hw, the batch loop of __main__      *)
(*   SpecCommit     latest_versions --commit-draft                         *)
(*   SpecMigrate    the migrators' batch loops, run once and once again    *)
(*   SpecDimensions import_dimensions_from_hw, the batch loop of __main__   *)
(*   SpecGroups     definition_groups/detect_sibling_definitions            *)
(*   SpecVerify     definition_groups/verify_same_geometry                  *)
(*   SpecVersions   latest_versions, each of its four modes                 *)
(*   SpecRoundTrip  latest_versions --draft-from-latest, then --commit-draft *)
(*                                                                         *)
(* Numbers that the scripts hold as decimal.Decimal are held here as       *)
(* integers counting half millimetres (Mm(5) is 5 mm), so that the one     *)
(* division the code makes (sphere_diameter / 2) is exact.                 *)
(***************************************************************************)
EXTENDS Integers, Sequences, FiniteSets, TLC

VARIABLES
    \* import_frusta_from_hw.to_geometry_def on its own
    g_sections,         \* the list of cross-section records handed in
    g_result,           \* <<>> before the call, <<to_geometry_def(...)>> after
    \* import_frusta_from_hw.__main__
    csv_bands,          \* what parse(csv_rows) yields, in order
    band_index,         \* position of the for loop over the bands
    definition_files,   \* load name -> the <n>.json files of its directory
    successes,
    parse_failures,
    rewrite_failures,
    \* latest_versions.main
    lv_disk,            \* path -> content of the file, or NoFile
    lv_disk0,           \* the disk when the run started
    lv_args,            \* the positional path arguments
    lv_pc,
    lv_index,           \* all_numbered_versions, highest_numbered_versions, drafts
    lv_draft_i,         \* position of the for loop over drafts
    lv_mode,            \* which of the four action flags was given
    lv_i,               \* position of the for loop of the other three modes
    lv_calls,           \* the prints and the file system calls made, in order
    \* the migrators
    mg_script,          \* which script runs
    mg_disk,            \* the file of each path argument
    mg_start,           \* the files when the current run started
    mg_i,               \* position of the for loop over paths
    mg_pc,
    mg_run,             \* 1 in the first run, 2 in the run on its output, ...
    mg_log,             \* per path: what the current run printed about it
    mg_log1,            \* per path: what the run before printed about it
    mg_problematic,     \* problematic_file_count (migrate_labware_defs)
    \* import_dimensions_from_hw.__main__
    dm_csv,             \* the header layout and the rows below the header row
    dm_results,         \* what extract_definition_info_from_csv returned
    dm_i,               \* position of the for loop over the results
    dm_pc,
    dm_disk,            \* load name -> the *.json files of its directory
    dm_disk0,           \* dm_disk when the script started
    dm_successes,
    dm_failed_extractions,
    dm_failed_rewrites,
    \* definition_groups/detect_sibling_definitions.__main__
    gr_lines,           \* the lines of sys.stdin, in order
    gr_to_print,        \* <<>> before the report, to_print after
    \* definition_groups/verify_same_geometry.__main__
    vf_groups,          \* the items of groups_dict, in order
    vf_definitions,     \* load name -> the *.json files of its directory
    vf_i,               \* position of the for loop over the groups
    vf_pc,
    vf_printed          \* per group handled: its mark and its members' paths

g_vars == <<g_sections, g_result>>
fr_vars == <<csv_bands, band_index, definition_files, successes,
             parse_failures, rewrite_failures>>
lv_vars == <<lv_disk, lv_disk0, lv_args, lv_pc, lv_index, lv_draft_i,
             lv_mode, lv_i, lv_calls>>
mg_vars == <<mg_script, mg_disk, mg_start, mg_i, mg_pc, mg_run,
             mg_log, mg_log1, mg_problematic>>
dm_vars == <<dm_csv, dm_results, dm_i, dm_pc, dm_disk, dm_disk0, dm_successes,
             dm_failed_extractions, dm_failed_rewrites>>
gr_vars == <<gr_lines, gr_to_print>>
vf_vars == <<vf_groups, vf_definitions, vf_i, vf_pc, vf_printed>>
vars == <<g_vars, fr_vars, lv_vars, mg_vars, dm_vars, gr_vars, vf_vars>>

\* The variables of the scripts a specification does not run.
g_idle == g_sections = <<>> /\ g_result = <<>>
fr_idle ==
    /\ csv_bands = <<>> /\ band_index = 1 /\ definition_files = <<>>
    /\ successes = <<>> /\ parse_failures = <<>> /\ rewrite_failures = <<>>
lv_idle ==
    /\ lv_disk = <<>> /\ lv_disk0 = <<>> /\ lv_args = <<>> /\ lv_pc = "idle"
    /\ lv_index = <<>> /\ lv_draft_i = 1
    /\ lv_mode = "none" /\ lv_i = 1 /\ lv_calls = <<>>
mg_idle ==
    /\ mg_script = "none" /\ mg_disk = <<>> /\ mg_start = <<>>
    /\ mg_i = 1 /\ mg_pc = "idle" /\ mg_run = 1 /\ mg_log = <<>> /\ mg_log1 = <<>>
    /\ mg_problematic = 0
dm_idle ==
    /\ dm_csv = <<>> /\ dm_results = <<>> /\ dm_i = 1 /\ dm_pc = "idle"
    /\ dm_disk = <<>> /\ dm_disk0 = <<>> /\ dm_successes = <<>>
    /\ dm_failed_extractions = <<>> /\ dm_failed_rewrites = <<>>
gr_idle == gr_lines = <<>> /\ gr_to_print = <<>>
vf_idle ==
    /\ vf_groups = <<>> /\ vf_definitions = <<>> /\ vf_i = 1 /\ vf_pc = "idle"
    /\ vf_printed = <<>>

Range(s) == {s[i] : i \in DOMAIN s}

Reverse(s) == [i \in 1..Len(s) |-> s[Len(s) + 1 - i]]


\* A Decimal of n millimetres, in half millimetres.
Mm(n) == 2 * n

(***************************************************************************)
(*                 import_frusta_from_hw: to_geometry_def                  *)
(***************************************************************************)

\* PATTERN QTY is int | Literal[""]: <<>> is the blank cell, <<n>> the int n.
BlankQty == <<>>

\* The three members of the Section union.  A field the class types as
\* Literal[""] holds no information and is left out of the record.
RectCrossSection(dist, qty, x, y) ==
    [type |-> "RECT", dist_from_bottom |-> dist, pattern_qty |-> qty,
     x_dim |-> x, y_dim |-> y]

SphericalSection(dist, qty, sh, sd) ==
    [type |-> "SEMI-SPH", dist_from_bottom |-> dist, pattern_qty |-> qty,
     sphere_height |-> sh, sphere_diameter |-> sd]

CircleCrossSection(dist, qty, d) ==
    [type |-> "CIRCLE", dist_from_bottom |-> dist, pattern_qty |-> qty,
     diameter |-> d]

\* has_pattern, mutated: only the upper record is asked.
has_pattern_above_only(below, above) ==
    above.pattern_qty \notin {BlankQty, <<1>>}

has_pattern(below, above) ==
    \/ above.pattern_qty \notin {BlankQty, <<1>>}
    \/ below.pattern_qty \notin {BlankQty, <<1>>}

PlaceholderCount == 99999

\* x_count, y_count = (99999, 99999) if has_pattern else (1, 1)
pattern_counts(below, above) ==
    IF has_pattern(below, above)
    THEN <<PlaceholderCount, PlaceholderCount>>
    ELSE <<1, 1>>

\* The pairs the match statement has no case for: it falls to `case _`.
unhandled_pair(below, above) ==
    \/ below.type = "RECT" /\ above.type # "RECT"
    \/ below.type = "CIRCLE" /\ above.type = "SEMI-SPH"

\* SD_SphericalSegment, mutated: the top is taken from the record above.
SphericalSegment_from_above(below, above) ==
    [shape |-> "spherical",
     radiusOfCurvature |-> below.sphere_diameter \div 2,
     topHeight |-> above.dist_from_bottom,
     bottomHeight |-> below.dist_from_bottom,
     xCount |-> pattern_counts(below, above)[1],
     yCount |-> pattern_counts(below, above)[2]]

\* case SphericalSection(), _.  float() of these Decimals is exact.
SphericalSegment(below, above) ==
    [shape |-> "spherical",
     radiusOfCurvature |-> below.sphere_diameter \div 2,
     topHeight |-> below.dist_from_bottom + below.sphere_height,
     bottomHeight |-> below.dist_from_bottom,
     xCount |-> pattern_counts(below, above)[1],
     yCount |-> pattern_counts(below, above)[2]]

\* case RectCrossSection(), RectCrossSection()
CuboidalFrustum(below, above) ==
    [shape |-> "cuboidal",
     topXDimension |-> above.x_dim,
     topYDimension |-> above.y_dim,
     topHeight |-> above.dist_from_bottom,
     bottomXDimension |-> below.x_dim,
     bottomYDimension |-> below.y_dim,
     bottomHeight |-> below.dist_from_bottom,
     xCount |-> pattern_counts(below, above)[1],
     yCount |-> pattern_counts(below, above)[2]]

\* case CircleCrossSection(), CircleCrossSection(), mutated: topHeight is taken
\* half way between the two records.
ConicalFrustum_to_half_height(below, above) ==
    [shape |-> "conical",
     topDiameter |-> above.diameter,
     topHeight |-> (below.dist_from_bottom + above.dist_from_bottom) \div 2,
     bottomDiameter |-> below.diameter,
     bottomHeight |-> below.dist_from_bottom,
     xCount |-> pattern_counts(below, above)[1],
     yCount |-> pattern_counts(below, above)[2]]

\* case CircleCrossSection(), CircleCrossSection()
ConicalFrustum(below, above) ==
    [shape |-> "conical",
     topDiameter |-> above.diameter,
     topHeight |-> above.dist_from_bottom,
     bottomDiameter |-> below.diameter,
     bottomHeight |-> below.dist_from_bottom,
     xCount |-> pattern_counts(below, above)[1],
     yCount |-> pattern_counts(below, above)[2]]

\* case CircleCrossSection(), RectCrossSection()
SquaredConeSegment(below, above) ==
    [shape |-> "squaredcone",
     bottomCrossSection |-> "circular",
     circleDiameter |-> below.diameter,
     rectangleXDimension |-> above.x_dim,
     rectangleYDimension |-> above.y_dim,
     topHeight |-> above.dist_from_bottom,
     bottomHeight |-> below.dist_from_bottom,
     xCount |-> pattern_counts(below, above)[1],
     yCount |-> pattern_counts(below, above)[2]]

\* The match statement, for a pair one of its first four cases takes.
pair_segment(below, above) ==
    CASE below.type = "RECT" /\ above.type = "RECT" ->
            CuboidalFrustum(below, above)
      [] below.type = "CIRCLE" /\ above.type = "CIRCLE" ->
            ConicalFrustum(below, above)
      [] below.type = "CIRCLE" /\ above.type = "RECT" ->
            SquaredConeSegment(below, above)
      [] below.type = "SEMI-SPH" ->
            SphericalSegment(below, above)

\* to_geometry_def, mutated: the pair is taken upside down.
RECURSIVE to_geometry_def_swapped(_)
to_geometry_def_swapped(sections) ==
    IF Len(sections) < 2 THEN [raised |-> FALSE, segments |-> <<>>]
    ELSE LET above == sections[Len(sections) - 1]
             below == sections[Len(sections)]
             before == to_geometry_def_swapped(SubSeq(sections, 1, Len(sections) - 1))
         IN  IF before.raised THEN before
             ELSE IF unhandled_pair(below, above)
                  THEN [raised |-> TRUE, segments |-> before.segments]
                  ELSE [raised |-> FALSE,
                        segments |-> Append(before.segments, pair_segment(below, above))]

\* to_geometry_def, mutated: a pair without a case is passed over.
RECURSIVE to_geometry_def_skipping(_)
to_geometry_def_skipping(sections) ==
    IF Len(sections) < 2 THEN [raised |-> FALSE, segments |-> <<>>]
    ELSE LET below == sections[Len(sections) - 1]
             above == sections[Len(sections)]
             before == to_geometry_def_skipping(SubSeq(sections, 1, Len(sections) - 1))
         IN  IF unhandled_pair(below, above) THEN before
             ELSE [raised |-> FALSE,
                   segments |-> Append(before.segments, pair_segment(below, above))]

\* to_geometry_def is a generator over itertools.pairwise(sections): it yields
\* one segment per pair, bottom pair first, and raises ValueError at the first
\* pair no case takes.  `segments` is what it yielded before it stopped.
RECURSIVE to_geometry_def(_)
to_geometry_def(sections) ==
    IF Len(sections) < 2 THEN [raised |-> FALSE, segments |-> <<>>]
    ELSE LET below == sections[Len(sections) - 1]
             above == sections[Len(sections)]
             before == to_geometry_def(SubSeq(sections, 1, Len(sections) - 1))
         IN  IF before.raised THEN before
             ELSE IF unhandled_pair(below, above)
                  THEN [raised |-> TRUE, segments |-> before.segments]
                  ELSE [raised |-> FALSE,
                        segments |-> Append(before.segments, pair_segment(below, above))]

--------------------------------------------------------------------------
\* SpecGeometry: to_geometry_def applied to every list of up to MaxSections
\* records drawn from SectionValues.

MaxSections == 3

Heights == {Mm(0), Mm(5)}

\* Records with a blank pattern quantity in two sizes, records with a pattern
\* quantity of 1 or 2 in one size.
SizesOf(qty) == IF qty = BlankQty THEN {1, 2} ELSE {1}
RectSizes == <<(<<Mm(5), Mm(5)>>), (<<Mm(8), Mm(6)>>)>>
CircleSizes == <<Mm(10), Mm(7)>>
SphereSizes == <<(<<Mm(3), Mm(6)>>), (<<Mm(2), Mm(5)>>)>>
Quantities == {BlankQty, <<1>>, <<2>>}

SectionValues ==
    UNION {
        {RectCrossSection(h, q, RectSizes[k][1], RectSizes[k][2]) : k \in SizesOf(q)}
        \cup {CircleCrossSection(h, q, CircleSizes[k]) : k \in SizesOf(q)}
        \cup {SphericalSection(h, q, SphereSizes[k][1], SphereSizes[k][2]) : k \in SizesOf(q)}
        : <<h, q>> \in Heights \X Quantities}

InitGeometry ==
    /\ \E n \in 1..MaxSections : g_sections \in [1..n -> SectionValues]
    /\ g_result = <<>>
    /\ fr_idle /\ lv_idle /\ mg_idle /\ dm_idle /\ gr_idle /\ vf_idle

CallToGeometryDef ==
    /\ g_result = <<>>
    /\ g_result' = <<to_geometry_def(g_sections)>>
    /\ UNCHANGED <<g_sections, fr_vars, lv_vars, mg_vars, dm_vars, gr_vars, vf_vars>>

NextGeometry == CallToGeometryDef

SpecGeometry == InitGeometry /\ [][NextGeometry]_vars


\* The segment list of the call, and whether the call has been made.
g_called == g_result # <<>>
g_segments == g_result[1].segments

\* C6: to_geometry_def applied to n >= 1 records whose consecutive pairs are all
\* handled yields exactly n-1 segments, the i-th built from records i (below)
\* and i+1 (above): RECT below RECT a cuboidal frustum, CIRCLE below CIRCLE a
\* conical frustum, CIRCLE below RECT a squared cone with circular bottom, each
\* with bottom height and dimensions from the lower record and top height and
\* dimensions from the upper one; [CIRCLE d=10 h=0, CIRCLE d=10 h=5] gives one
\* conical segment with both diameters 10 and heights 0 and 5.
C6_PairIsHandled(below, above) ==
    \/ below.type = "RECT" /\ above.type = "RECT"
    \/ below.type = "CIRCLE" /\ above.type \in {"CIRCLE", "RECT"}
    \/ below.type = "SEMI-SPH"

C6_SegmentFromPair(seg, below, above) ==
    /\ seg.bottomHeight = below.dist_from_bottom
    /\ below.type # "SEMI-SPH" => seg.topHeight = above.dist_from_bottom
    /\ below.type = "RECT" /\ above.type = "RECT" =>
        /\ seg.shape = "cuboidal"
        /\ seg.bottomXDimension = below.x_dim /\ seg.bottomYDimension = below.y_dim
        /\ seg.topXDimension = above.x_dim /\ seg.topYDimension = above.y_dim
    /\ below.type = "CIRCLE" /\ above.type = "CIRCLE" =>
        /\ seg.shape = "conical"
        /\ seg.bottomDiameter = below.diameter
        /\ seg.topDiameter = above.diameter
    /\ below.type = "CIRCLE" /\ above.type = "RECT" =>
        /\ seg.shape = "squaredcone" /\ seg.bottomCrossSection = "circular"
        /\ seg.circleDiameter = below.diameter
        /\ seg.rectangleXDimension = above.x_dim
        /\ seg.rectangleYDimension = above.y_dim
    /\ below.type = "SEMI-SPH" => seg.shape = "spherical"

C6_OneSegmentPerPair ==
    g_called =>
        /\ (\A i \in 1..(Len(g_sections) - 1) :
                C6_PairIsHandled(g_sections[i], g_sections[i + 1]))
           => /\ ~g_result[1].raised
              /\ Len(g_segments) = Len(g_sections) - 1
              /\ \A i \in 1..(Len(g_sections) - 1) :
                    C6_SegmentFromPair(g_segments[i], g_sections[i], g_sections[i + 1])
        /\ \A q1, q2 \in {BlankQty, <<1>>} :
            g_sections = <<CircleCrossSection(Mm(0), q1, Mm(10)),
                           CircleCrossSection(Mm(5), q2, Mm(10))>>
            => g_segments = <<[shape |-> "conical", topDiameter |-> Mm(10),
                               topHeight |-> Mm(5), bottomDiameter |-> Mm(10),
                               bottomHeight |-> Mm(0), xCount |-> 1, yCount |-> 1]>>

\* A stack of three records, CIRCLE, CIRCLE, RECT, has given its two segments.
C6_Witness ==
    /\ g_called /\ Len(g_sections) = 3 /\ Len(g_segments) = 2
    /\ g_sections[1].type = "CIRCLE" /\ g_sections[2].type = "CIRCLE"
    /\ g_sections[3].type = "RECT"
    /\ g_sections[1].diameter # g_sections[2].diameter
    /\ g_segments[2].shape = "squaredcone"

\* C7: a pair whose lower record is SEMI-SPH gives a spherical segment with
\* bottomHeight the lower record's distance from bottom, topHeight that
\* distance plus its sphere height and radius of curvature half its sphere
\* diameter, whatever the upper record is; no dimension and no height of the
\* upper record is in the segment.  [SEMI-SPH sphereD=6 sphereH=3 h=0,
\* RECT x=5 y=5 h=5] gives one spherical segment, bottom 0, top 3, radius 3.
C7_Spherical ==
    g_called =>
        /\ \A i \in 1..Len(g_segments) :
            g_sections[i].type = "SEMI-SPH" =>
                LET seg == g_segments[i]
                    below == g_sections[i]
                    above == g_sections[i + 1]
                IN  /\ seg.shape = "spherical"
                    /\ seg.bottomHeight = below.dist_from_bottom
                    /\ seg.topHeight = below.dist_from_bottom + below.sphere_height
                    /\ 2 * seg.radiusOfCurvature = below.sphere_diameter
                    /\ DOMAIN seg = {"shape", "radiusOfCurvature", "topHeight",
                                     "bottomHeight", "xCount", "yCount"}
                    /\ \A other \in SectionValues :
                        other.pattern_qty = above.pattern_qty
                        => to_geometry_def(<<below, other>>).segments = <<seg>>
        /\ \A q1, q2 \in {BlankQty, <<1>>} :
            g_sections = <<SphericalSection(Mm(0), q1, Mm(3), Mm(6)),
                           RectCrossSection(Mm(5), q2, Mm(5), Mm(5))>>
            => g_segments = <<[shape |-> "spherical", radiusOfCurvature |-> Mm(3),
                               topHeight |-> Mm(3), bottomHeight |-> Mm(0),
                               xCount |-> 1, yCount |-> 1]>>

\* The hemisphere of the example under a rectangle has given its segment, whose
\* top (3 mm) is not the height of the rectangle above it (5 mm).
C7_Witness ==
    /\ g_called /\ Len(g_sections) = 2 /\ Len(g_segments) = 1
    /\ g_sections[1] = SphericalSection(Mm(0), BlankQty, Mm(3), Mm(6))
    /\ g_sections[2].type = "RECT"
    /\ g_segments[1].topHeight # g_sections[2].dist_from_bottom

\* C9: the xCount and yCount of every segment are both 99999 if the lower or
\* the upper record of its pair declares a pattern quantity other than blank
\* or 1, and both 1 otherwise.
C9_Counts ==
    g_called =>
        \A i \in 1..Len(g_segments) :
            LET declared(rec) == rec.pattern_qty # <<>> /\ rec.pattern_qty # <<1>>
                expected == IF declared(g_sections[i]) \/ declared(g_sections[i + 1])
                            THEN 99999 ELSE 1
            IN  /\ g_segments[i].xCount = expected
                /\ g_segments[i].yCount = expected

\* A segment got the placeholder counts on account of its lower record alone,
\* and another segment of the same call got 1, 1.
C9_Witness ==
    /\ g_called /\ Len(g_segments) = 2
    /\ g_sections[1].pattern_qty = <<2>>
    /\ g_sections[2].pattern_qty = <<1>>
    /\ g_sections[3].pattern_qty = BlankQty
    /\ g_segments[1].xCount = 99999 /\ g_segments[2].xCount = 1

(***************************************************************************)
(*                   import_frusta_from_hw: __main__                       *)
(***************************************************************************)

\* A definition file, as far as the importer reads and writes it: whether it
\* has the key innerLabwareGeometry, and that dict (geometry key -> a dict with
\* the one key "sections").  Every other key of the file is loaded and dumped
\* as it was.
Definition(has, geometry) ==
    [has_innerLabwareGeometry |-> has, innerLabwareGeometry |-> geometry]

\* A load name's directory under the definitions root: numbered[n] is the file
\* <n>.json; has_draft says whether a draft.json lies beside them.
LabwareDir(files, draft) == [numbered |-> files, has_draft |-> draft]

\* find_latest_definition: sorted(glob("*.json"), key=int(stem))[-1].
\* int("draft") raises ValueError; no file at all raises RuntimeError.
find_latest_definition(dir) ==
    IF dir.has_draft THEN [raised |-> TRUE, exception |-> "ValueError", version |-> 0]
    ELSE IF Len(dir.numbered) = 0
         THEN [raised |-> TRUE, exception |-> "RuntimeError", version |-> 0]
         ELSE [raised |-> FALSE, exception |-> "", version |-> Len(dir.numbered)]

\* new_sections, mutated: the list is written in pairing order.
new_sections_in_pairing_order(segments) == segments

\* new_sections = list(reversed([section.model_dump(exclude_defaults=True) ...]))
\* model_dump leaves out the fields that hold the defaults of the schema
\* library; the records here keep every field.
new_sections(segments) == Reverse(segments)

\* The body of the try statement for one parsed band: the directory after it,
\* or the exception that left it.
rewrite(dir, sections) ==
    LET latest == find_latest_definition(dir)
        geometry == to_geometry_def(sections)
        definition == dir.numbered[latest.version]
        written == [key \in DOMAIN definition.innerLabwareGeometry |->
                        [sections |-> new_sections(geometry.segments)]]
    IN  IF latest.raised
        THEN [raised |-> TRUE, exception |-> latest.exception, dir |-> dir]
        ELSE IF geometry.raised
        THEN [raised |-> TRUE, exception |-> "ValueError", dir |-> dir]
        ELSE IF ~definition.has_innerLabwareGeometry
        THEN [raised |-> TRUE, exception |-> "KeyError", dir |-> dir]
        ELSE [raised |-> FALSE, exception |-> "",
              dir |-> [dir EXCEPT !.numbered[latest.version].innerLabwareGeometry
                                      = written]]

band == csv_bands[band_index]

\* if isinstance(sections, Exception): parse_failures.append(sections); continue
RecordParseFailure ==
    /\ band_index <= Len(csv_bands)
    /\ ~band.parsed
    /\ parse_failures' = Append(parse_failures, "ValidationError")
    /\ band_index' = band_index + 1
    /\ UNCHANGED <<csv_bands, definition_files, successes, rewrite_failures>>
    /\ UNCHANGED <<g_vars, lv_vars, mg_vars, dm_vars, gr_vars, vf_vars>>

\* except Exception as exception: rewrite_failures.append(...); continue
RecordRewriteFailure ==
    /\ band_index <= Len(csv_bands)
    /\ band.parsed
    /\ LET outcome == rewrite(definition_files[band.load_name], band.sections)
       IN  /\ outcome.raised
           /\ rewrite_failures' =
                Append(rewrite_failures, <<band.load_name, outcome.exception>>)
    /\ band_index' = band_index + 1
    /\ UNCHANGED <<csv_bands, definition_files, successes, parse_failures>>
    /\ UNCHANGED <<g_vars, lv_vars, mg_vars, dm_vars, gr_vars, vf_vars>>

\* the try body ran to its end: the file is written; successes.append(load_name)
RecordSuccess ==
    /\ band_index <= Len(csv_bands)
    /\ band.parsed
    /\ LET outcome == rewrite(definition_files[band.load_name], band.sections)
       IN  /\ ~outcome.raised
           /\ definition_files' =
                [definition_files EXCEPT ![band.load_name] = outcome.dir]
    /\ successes' = Append(successes, band.load_name)
    /\ band_index' = band_index + 1
    /\ UNCHANGED <<csv_bands, parse_failures, rewrite_failures>>
    /\ UNCHANGED <<g_vars, lv_vars, mg_vars, dm_vars, gr_vars, vf_vars>>

--------------------------------------------------------------------------
\* SpecFrusta: the loop over up to MaxBands bands, on a definitions root with
\* two load names.

MaxBands == 2

LoadNames == {"lw_a", "lw_b"}

\* Sections of a file before the import.
OldSections == <<[shape |-> "old"]>>

DefinitionNoGeometry == Definition(FALSE, <<>>)
DefinitionOneKey == Definition(TRUE, [k \in {"conicalWell"} |-> [sections |-> OldSections]])
DefinitionTwoKeys ==
    Definition(TRUE, [k \in {"conicalWell", "cuboidalWell"} |-> [sections |-> OldSections]])

DirValues ==
    {LabwareDir(<<>>, FALSE),
     LabwareDir(<<DefinitionOneKey>>, FALSE),
     LabwareDir(<<DefinitionOneKey, DefinitionTwoKeys>>, FALSE),
     LabwareDir(<<DefinitionNoGeometry>>, FALSE),
     LabwareDir(<<DefinitionOneKey>>, TRUE)}

\* The section lists of the bands: stacks every case takes, and stacks with
\* each of the pairs no case takes.
SectionLists ==
    {<<CircleCrossSection(Mm(0), BlankQty, Mm(10)),
       CircleCrossSection(Mm(5), BlankQty, Mm(10))>>,
     <<SphericalSection(Mm(0), <<1>>, Mm(3), Mm(6)),
       RectCrossSection(Mm(5), <<1>>, Mm(5), Mm(5))>>,
     <<CircleCrossSection(Mm(0), BlankQty, Mm(7)),
       CircleCrossSection(Mm(3), BlankQty, Mm(10)),
       RectCrossSection(Mm(5), <<2>>, Mm(8), Mm(6))>>,
     <<CircleCrossSection(Mm(0), BlankQty, Mm(7))>>,
     <<RectCrossSection(Mm(0), BlankQty, Mm(8), Mm(6)),
       CircleCrossSection(Mm(5), BlankQty, Mm(10))>>,
     <<RectCrossSection(Mm(0), BlankQty, Mm(8), Mm(6)),
       SphericalSection(Mm(5), BlankQty, Mm(3), Mm(6))>>,
     <<CircleCrossSection(Mm(0), BlankQty, Mm(7)),
       CircleCrossSection(Mm(3), BlankQty, Mm(10)),
       SphericalSection(Mm(5), BlankQty, Mm(3), Mm(6))>>}

\* What parse() yields for a band: (load_name, sections) or
\* (load_name, ValidationError).
BandValues ==
    {[load_name |-> n, parsed |-> TRUE, sections |-> l] :
        n \in LoadNames, l \in SectionLists}
    \cup {[load_name |-> n, parsed |-> FALSE, sections |-> <<>>] : n \in LoadNames}

InitFrusta ==
    /\ \E n \in 1..MaxBands : csv_bands \in [1..n -> BandValues]
    /\ definition_files \in [LoadNames -> DirValues]
    /\ band_index = 1
    /\ successes = <<>> /\ parse_failures = <<>> /\ rewrite_failures = <<>>
    /\ g_idle /\ lv_idle /\ mg_idle /\ dm_idle /\ gr_idle /\ vf_idle

NextFrusta == RecordParseFailure \/ RecordRewriteFailure \/ RecordSuccess

SpecFrusta == InitFrusta /\ [][NextFrusta]_vars

\* C8: a band with a pair no rule covers (RECT below CIRCLE, RECT below
\* SEMI-SPH, CIRCLE below SEMI-SPH) is a hard failure: nothing is written for
\* its load name and every definition file is as it was, the load name goes to
\* rewrite_failures and not to successes, and the loop goes on to the next
\* band; at the end every band has been put in one of the three buckets.
C8_HasUncoveredPair(sections) ==
    \E i \in 1..(Len(sections) - 1) :
        \/ sections[i].type = "RECT" /\ sections[i + 1].type \in {"CIRCLE", "SEMI-SPH"}
        \/ sections[i].type = "CIRCLE" /\ sections[i + 1].type = "SEMI-SPH"

C8_StepOfUncoveredPair ==
    (band_index <= Len(csv_bands) /\ band.parsed /\ C8_HasUncoveredPair(band.sections))
    => /\ definition_files' = definition_files
       /\ successes' = successes
       /\ Len(rewrite_failures') = Len(rewrite_failures) + 1
       /\ rewrite_failures'[Len(rewrite_failures')][1] = band.load_name
       /\ band_index' = band_index + 1

C8_UnhandledPairFails ==
    /\ [][C8_StepOfUncoveredPair]_vars
    /\ [](~(ENABLED NextFrusta) =>
            /\ band_index = Len(csv_bands) + 1
            /\ Len(successes) + Len(parse_failures) + Len(rewrite_failures)
                    = Len(csv_bands))

\* The first band had a CIRCLE below a SEMI-SPH above a handled pair: it is in
\* rewrite_failures, its file still holds the old sections, and the band after
\* it has been imported.
C8_Witness ==
    /\ Len(csv_bands) = 2 /\ band_index = 3
    /\ csv_bands[1].parsed /\ Len(csv_bands[1].sections) = 3
    /\ csv_bands[1].sections[3].type = "SEMI-SPH"
    /\ csv_bands[1].load_name = "lw_a" /\ csv_bands[2].load_name = "lw_b"
    /\ definition_files["lw_a"] = LabwareDir(<<DefinitionOneKey>>, FALSE)
    /\ rewrite_failures = <<(<<"lw_a", "ValueError">>)>>
    /\ successes = <<"lw_b">>

\* C10: the sections written into the definition are the exact reverse of the
\* bottom-to-top sequence of the pairing: the first written section is from the
\* topmost pair of cross-sections, the last from the bottommost, none dropped
\* and none twice.
C10_StepOfSuccess ==
    (band_index <= Len(csv_bands) /\ successes' # successes)
    => LET sections == band.sections
           n == Len(sections) - 1
           dir == definition_files'[band.load_name]
           geometry == dir.numbered[Len(dir.numbered)].innerLabwareGeometry
       IN  \A key \in DOMAIN geometry :
            LET written == geometry[key].sections
            IN  /\ Len(written) = n
                /\ \A i \in 1..n :
                    /\ written[i] = to_geometry_def(sections).segments[n + 1 - i]
                    /\ written[i].bottomHeight = sections[n + 1 - i].dist_from_bottom

C10_WrittenTopToBottom == [][C10_StepOfSuccess]_vars

\* A stack of three records has been imported: two sections are in the file,
\* the upper one first.
C10_Witness ==
    /\ successes = <<"lw_a">>
    /\ LET written == definition_files["lw_a"].numbered[1]
                        .innerLabwareGeometry["conicalWell"].sections
       IN  /\ Len(written) = 2
           /\ written[1].shape = "squaredcone" /\ written[2].shape = "conical"
           /\ written[1].bottomHeight > written[2].bottomHeight

(***************************************************************************)
(*                            latest_versions                              *)
(***************************************************************************)

\* A path <dir>/<stem>.json: kind "numbered" has an integer stem (version),
\* kind "draft" is draft.json, kind "other" has a stem that is neither.  A
\* path of kind "suffix" is <dir>/<version>.txt.  The root directory an
\* argument may name has kind "dir".
Path(dir, kind, version) == [dir |-> dir, kind |-> kind, version |-> version]

\* path.resolve().parent.name
ParentName(dir) ==
    CASE dir = "defs/a" -> "a"
      [] dir = "defs/b" -> "b"

\* The parsed JSON of a file: its "version" key and the rest of it.
Content(version, body) == [version |-> version, body |-> body]
NoFile == Content(0, "no file")

\* parse_path: None, or (name, version) with version an int or "draft".
parse_path(path) ==
    IF path.kind = "suffix"
    THEN [parsed |-> FALSE, name |-> "", draft |-> FALSE, version |-> 0]
    ELSE IF path.kind = "other"
    THEN [parsed |-> FALSE, name |-> "", draft |-> FALSE, version |-> 0]
    ELSE [parsed |-> TRUE, name |-> ParentName(path.dir),
          draft |-> path.kind = "draft", version |-> path.version]

\* The dict highest_numbered_versions: a name that is no key of it (the lookup
\* raises KeyError, read as None) has known = FALSE.
NoEntry == [known |-> FALSE, path |-> Path("", "none", 0), version |-> 0]
EmptyDict == [name \in {"a", "b"} |-> NoEntry]

\* highest_with, mutated: the dict keeps the first file it meets for a name.
highest_with_first(highest, name, path, version) ==
    IF ~highest[name].known
    THEN [highest EXCEPT ![name] = [known |-> TRUE, path |-> path, version |-> version]]
    ELSE highest

\* The dict after one more numbered file.
highest_with(highest, name, path, version) ==
    IF ~highest[name].known \/ version > highest[name].version
    THEN [highest EXCEPT ![name] = [known |-> TRUE, path |-> path, version |-> version]]
    ELSE highest

\* classify, mutated: the loop ends at the first path that does not parse.
RECURSIVE classify_until_unparsable(_)
classify_until_unparsable(paths) ==
    IF paths = <<>>
    THEN [all_numbered_versions |-> <<>>, highest_numbered_versions |-> EmptyDict,
          drafts |-> <<>>, warnings |-> <<>>]
    ELSE LET before == classify_until_unparsable(SubSeq(paths, 1, Len(paths) - 1))
             path == paths[Len(paths)]
             result == parse_path(path)
         IN  IF before.warnings # <<>>
             THEN before
             ELSE IF ~result.parsed
             THEN [before EXCEPT !.warnings = Append(@, path)]
             ELSE IF result.draft
             THEN [before EXCEPT !.drafts = Append(@, <<result.name, path>>)]
             ELSE [before EXCEPT
                    !.all_numbered_versions =
                        Append(@, <<result.name, path, result.version>>),
                    !.highest_numbered_versions =
                        highest_with(@, result.name, path, result.version)]

\* The loop over resolve_paths(paths) that fills the three collections (and
\* prints a warning for a path parse_path returns None for).
RECURSIVE classify(_)
classify(paths) ==
    IF paths = <<>>
    THEN [all_numbered_versions |-> <<>>, highest_numbered_versions |-> EmptyDict,
          drafts |-> <<>>, warnings |-> <<>>]
    ELSE LET before == classify(SubSeq(paths, 1, Len(paths) - 1))
             path == paths[Len(paths)]
             result == parse_path(path)
         IN  IF ~result.parsed
             THEN [before EXCEPT !.warnings = Append(@, path)]
             ELSE IF result.draft
             THEN [before EXCEPT !.drafts = Append(@, <<result.name, path>>)]
             ELSE [before EXCEPT
                    !.all_numbered_versions =
                        Append(@, <<result.name, path, result.version>>),
                    !.highest_numbered_versions =
                        highest_with(@, result.name, path, result.version)]

--------------------------------------------------------------------------
\* The files of the model: two load name directories under the root "defs".

MaxVersion == 2
MaxArgs == 2

RootDir == Path("defs", "dir", 0)

\* Files a run may find: <n>.json up to MaxVersion in defs/a, 1.json in defs/b,
\* a draft.json in each, and a file of another name.
InitialPaths ==
    <<Path("defs/a", "other", 0)>>
    \o [n \in 1..MaxVersion |-> Path("defs/a", "numbered", n)]
    \o <<Path("defs/a", "draft", 0),
         Path("defs/b", "numbered", 1),
         Path("defs/b", "draft", 0)>>

\* defs/a/1.txt, which no glob of *.json finds
TextPath == Path("defs/a", "suffix", 1)

\* Every path a run can create as well.
AllPaths ==
    Range(InitialPaths)
    \cup {TextPath}
    \cup {Path("defs/a", "numbered", n) : n \in 1..(MaxVersion + 1)}
    \cup {Path("defs/b", "numbered", n) : n \in 1..2}

Contents == {Content(1, "A"), Content(1, "B")}

\* resolve_paths: a directory gives its *.json files (here in the order of
\* InitialPaths), any other argument gives itself, on disk or not.
RECURSIVE resolve_paths(_, _)
resolve_paths(roots, disk) ==
    IF roots = <<>> THEN <<>>
    ELSE LET root == roots[Len(roots)]
             found == IF root.kind = "dir"
                      THEN SelectSeq(InitialPaths, LAMBDA p : disk[p] # NoFile)
                      ELSE <<root>>
         IN  resolve_paths(SubSeq(roots, 1, Len(roots) - 1), disk) \o found

\* lines 63-88: the collections are filled before any mode acts
Classify ==
    /\ lv_pc = "start"
    /\ lv_index' = classify(resolve_paths(lv_args, lv_disk))
    /\ lv_pc' = lv_mode
    /\ UNCHANGED <<lv_disk, lv_disk0, lv_args, lv_draft_i, lv_mode, lv_i, lv_calls>>
    /\ UNCHANGED <<g_vars, fr_vars, mg_vars, dm_vars, gr_vars, vf_vars>>

draft_name == lv_index.drafts[lv_draft_i][1]
draft_path == lv_index.drafts[lv_draft_i][2]
draft_known == lv_index.highest_numbered_versions[draft_name].known
existing_file == lv_index.highest_numbered_versions[draft_name].path
existing_highest_version == lv_index.highest_numbered_versions[draft_name].version

\* read_bytes of a file that is not there, or replace of one, raises
\* FileNotFoundError, which nothing catches.
commit_raises ==
    IF lv_disk[draft_path] = NoFile THEN TRUE
    ELSE IF draft_known THEN lv_disk[existing_file] = NoFile
    ELSE FALSE

\* the condition of line 110 comparing the two paths, not what the files hold
commit_renames_comparing_paths ==
    IF draft_known THEN draft_path # existing_file ELSE TRUE

\* existing_file is None or json.loads(draft) != json.loads(existing_file)
commit_renames ==
    IF draft_known THEN lv_disk[draft_path] # lv_disk[existing_file] ELSE TRUE

new_version == IF draft_known THEN existing_highest_version + 1 ELSE 1

\* a print or a file system call: what was called, on which path, and the
\* destination of a copy or a replace
NoTarget == Path("", "none", 0)

Call(op, path, to) == [op |-> op, path |-> path, to |-> to]

\* the read_bytes calls of the condition of line 110, the raising one included
commit_reads ==
    IF ~draft_known
    THEN <<>>
    ELSE IF lv_disk[draft_path] = NoFile
    THEN <<Call("read", draft_path, NoTarget)>>
    ELSE <<Call("read", draft_path, NoTarget),
           Call("read", existing_file, NoTarget)>>

InCommitLoop ==
    /\ lv_pc = "commit"
    /\ lv_draft_i <= Len(lv_index.drafts)

\* draft_path.replace(draft_path.with_name(f"{new_version}.json"))
CommitRename ==
    /\ InCommitLoop
    /\ ~commit_raises /\ commit_renames
    /\ lv_disk' = [lv_disk EXCEPT
                    ![Path(draft_path.dir, "numbered", new_version)] = lv_disk[draft_path],
                    ![draft_path] = NoFile]
    /\ lv_calls' = lv_calls \o commit_reads
                    \o <<Call("replace", draft_path,
                              Path(draft_path.dir, "numbered", new_version))>>
    /\ lv_draft_i' = lv_draft_i + 1
    /\ UNCHANGED <<lv_disk0, lv_args, lv_pc, lv_index, lv_mode, lv_i>>
    /\ UNCHANGED <<g_vars, fr_vars, mg_vars, dm_vars, gr_vars, vf_vars>>

\* draft_path.unlink()
CommitDelete ==
    /\ InCommitLoop
    /\ ~commit_raises /\ ~commit_renames
    /\ lv_disk' = [lv_disk EXCEPT ![draft_path] = NoFile]
    /\ lv_calls' = lv_calls \o commit_reads
                    \o <<Call("unlink", draft_path, NoTarget)>>
    /\ lv_draft_i' = lv_draft_i + 1
    /\ UNCHANGED <<lv_disk0, lv_args, lv_pc, lv_index, lv_mode, lv_i>>
    /\ UNCHANGED <<g_vars, fr_vars, mg_vars, dm_vars, gr_vars, vf_vars>>

\* the exception ends the run
CommitRaise ==
    /\ InCommitLoop
    /\ commit_raises
    /\ lv_pc' = "raised"
    /\ lv_calls' = lv_calls \o
        (IF draft_known
         THEN commit_reads
         ELSE <<Call("replace", draft_path,
                     Path(draft_path.dir, "numbered", new_version))>>)
    /\ UNCHANGED <<lv_disk, lv_disk0, lv_args, lv_index, lv_draft_i, lv_mode, lv_i>>
    /\ UNCHANGED <<g_vars, fr_vars, mg_vars, dm_vars, gr_vars, vf_vars>>

\* main returns
CommitDone ==
    /\ lv_pc = "commit"
    /\ lv_draft_i > Len(lv_index.drafts)
    /\ lv_pc' = "done"
    /\ UNCHANGED <<lv_disk, lv_disk0, lv_args, lv_index, lv_draft_i, lv_mode,
                   lv_i, lv_calls>>
    /\ UNCHANGED <<g_vars, fr_vars, mg_vars, dm_vars, gr_vars, vf_vars>>

\* SpecCommit: --commit-draft with up to MaxArgs path arguments, each the
\* root directory or one file.
InitCommit ==
    /\ lv_disk0 \in {d \in [AllPaths -> Contents \cup {NoFile}] :
                        /\ \A p \in AllPaths \ Range(InitialPaths) : d[p] = NoFile
                        /\ d[InitialPaths[1]] = Content(1, "A")}
    /\ lv_disk = lv_disk0
    /\ \E n \in 0..MaxArgs : lv_args \in [1..n -> {RootDir} \cup Range(InitialPaths)]
    /\ lv_pc = "start"
    /\ lv_index = <<>>
    /\ lv_draft_i = 1
    /\ lv_mode = "commit"
    /\ lv_i = 1
    /\ lv_calls = <<>>
    /\ g_idle /\ fr_idle /\ mg_idle /\ dm_idle /\ gr_idle /\ vf_idle

NextCommit == Classify \/ CommitRename \/ CommitDelete \/ CommitRaise \/ CommitDone

SpecCommit == InitCommit /\ [][NextCommit]_vars

\* The draft files the run was given and that were on disk when it started.
given_drafts ==
    {p \in Range(resolve_paths(lv_args, lv_disk0)) :
        p.kind = "draft" /\ lv_disk0[p] # NoFile}

\* The numbered files of a draft's load name that were on disk at the start,
\* and the highest of their versions (0 when there is none).
numbered_on_disk(draft) ==
    {q \in AllPaths : /\ q.kind = "numbered"
                      /\ ParentName(q.dir) = ParentName(draft.dir)
                      /\ lv_disk0[q] # NoFile}

highest_on_disk(draft) ==
    IF numbered_on_disk(draft) = {} THEN 0
    ELSE CHOOSE n \in {q.version : q \in numbered_on_disk(draft)} :
            \A q \in numbered_on_disk(draft) : q.version <= n

highest_file_on_disk(draft) == Path(draft.dir, "numbered", highest_on_disk(draft))

\* C1: with --commit-draft every draft whose content differs from the
\* highest-numbered version file of its load name is renamed to (N+1).json, N
\* the highest existing numbered version of that load name, or to 1.json if no
\* numbered version of it exists; afterwards the draft.json is gone.
C1_DraftBecomesNextVersion ==
    lv_pc = "done" =>
        \A draft \in given_drafts :
            LET N == highest_on_disk(draft)
            IN  (N = 0 \/ lv_disk0[draft] # lv_disk0[highest_file_on_disk(draft)])
                => /\ lv_disk[Path(draft.dir, "numbered", N + 1)] = lv_disk0[draft]
                   /\ lv_disk[draft] = NoFile

\* C2: with --commit-draft a draft whose content equals that of the current
\* highest-numbered version file of its load name is deleted, not renamed: no
\* numbered file is created and every numbered file of the load name is as it
\* was.
C2_EqualDraftIsDeleted ==
    lv_pc = "done" =>
        \A draft \in given_drafts :
            (/\ highest_on_disk(draft) > 0
             /\ lv_disk0[draft] = lv_disk0[highest_file_on_disk(draft)])
            => /\ lv_disk[draft] = NoFile
               /\ \A q \in AllPaths :
                    (q.kind = "numbered" /\ ParentName(q.dir) = ParentName(draft.dir))
                    => lv_disk[q] = lv_disk0[q]

(***************************************************************************)
(* The migrators: migrate_labware_defs, migrate_to_extents,                *)
(* update_module_defs, update_deck_definitions, and the batch loop of      *)
(* set_well_depth_from_innerlabwaregeometry.                               *)
(*                                                                         *)
(* A JSON object is a Python dict, which keeps the order in which its keys *)
(* were inserted: it is a sequence of <<key, value>> pairs here.  The      *)
(* numbers of these files are whole millimetres; the scripts only add,     *)
(* subtract and negate them, which decimal.Decimal does exactly.           *)
(***************************************************************************)
EmptyObject == <<>>

\* key in d
Has(d, key) == \E i \in DOMAIN d : d[i][1] = key

\* d[key], for a key that d has
Get(d, key) == d[CHOOSE i \in DOMAIN d : d[i][1] = key][2]

\* d.get(key, default)
GetOr(d, key, default) == IF Has(d, key) THEN Get(d, key) ELSE default

\* d[key] = value: a key that d has keeps its position, a new key goes last
Put(d, key, value) ==
    IF Has(d, key)
    THEN [i \in DOMAIN d |-> IF d[i][1] = key THEN <<key, value>> ELSE d[i]]
    ELSE Append(d, <<key, value>>)

\* del d[key]
Del(d, key) == SelectSeq(d, LAMBDA item : item[1] # key)

\* list(d.keys())
Keys(d) == [i \in DOMAIN d |-> d[i][1]]

\* the text of a file: json.loads raises on it, or gives an object
InvalidJson == [valid |-> FALSE, definition |-> EmptyObject]
JsonFile(definition) == [valid |-> TRUE, definition |-> definition]

Vector(x, y, z) == [x |-> x, y |-> y, z |-> z]
ZeroVector == Vector(0, 0, 0)

\* what a call gives back: it raised, or it returned `definition`; the
\* in-place changes made before it raised are in `definition` too
Raised(definition) == [raised |-> TRUE, definition |-> definition, warnings |-> 0,
                       printed |-> "traceback"]
Returned(definition, warnings, printed) ==
    [raised |-> FALSE, definition |-> definition, warnings |-> warnings,
     printed |-> printed]

(***************************************************************************)
(* migrate_labware_defs.py                                                 *)
(***************************************************************************)
\* for well in definition["wells"].values(): well["y"] = -(yDimension - well["y"])
flip_wells(wells, y_dimension) ==
    [i \in DOMAIN wells |->
        <<wells[i][1], [wells[i][2] EXCEPT !.y = -(y_dimension - wells[i][2].y)]>>]

\* the subscripts of move_wells_to_quadrant_4 that raise KeyError or IndexError
move_wells_raises(definition) ==
    IF ~(Has(definition, "ordering") /\ Has(definition, "dimensions")
            /\ Has(definition, "wells"))
    THEN TRUE
    ELSE IF ~Has(Get(definition, "dimensions"), "yDimension")
    THEN TRUE
    ELSE \E c \in DOMAIN Get(definition, "ordering") :
            LET column == Get(definition, "ordering")[c]
            IN  IF column = <<>>
                THEN TRUE
                ELSE ~(Has(Get(definition, "wells"), column[1])
                        /\ Has(Get(definition, "wells"), column[Len(column)]))

\* differences, one per column: back inset minus front inset
differences(definition) ==
    LET ordering == Get(definition, "ordering")
        wells == Get(definition, "wells")
        y_dimension == Get(Get(definition, "dimensions"), "yDimension")
    IN  [c \in DOMAIN ordering |->
            (y_dimension - Get(wells, ordering[c][1]).y)
                - Get(wells, ordering[c][Len(ordering[c])]).y]

\* all_columns_centered, looking at the first column only
first_column_centered(definition) ==
    \A c \in DOMAIN differences(definition) :
        c = 1 => differences(definition)[c] = 0

all_columns_centered(definition) ==
    \A c \in DOMAIN differences(definition) : differences(definition)[c] = 0

\* move_wells_to_quadrant_4: the definition it leaves and the warnings it adds
move_wells_to_quadrant_4(definition) ==
    IF move_wells_raises(definition)
    THEN Raised(definition)
    ELSE IF all_columns_centered(definition)
    THEN Returned(Put(definition, "wells",
                      flip_wells(Get(definition, "wells"),
                                 Get(Get(definition, "dimensions"), "yDimension"))),
                  0, "")
    ELSE Returned(definition, 1, "")

\* remove_corner_offset_from_slot
remove_corner_offset_from_slot(definition) ==
    IF ~Has(definition, "cornerOffsetFromSlot")
    THEN Raised(definition)
    ELSE IF Get(definition, "cornerOffsetFromSlot") = ZeroVector
    THEN Returned(Del(definition, "cornerOffsetFromSlot"), 0, "")
    ELSE Returned(definition, 1, "")

\* migrate: both steps on the one object, the warnings accumulated
migrate_labware_def(definition) ==
    LET moved == move_wells_to_quadrant_4(definition)
        removed == remove_corner_offset_from_slot(moved.definition)
    IN  IF moved.raised
        THEN moved
        ELSE IF removed.raised
        THEN removed
        ELSE Returned(removed.definition, moved.warnings + removed.warnings, "")

\* the same body, writing the object in the except branch too
migrate_labware_defs_file_always_writing(definition) ==
    LET migrated == migrate_labware_def(definition)
    IN  IF migrated.raised
        THEN [file |-> JsonFile(migrated.definition), printed |-> "internal error",
              problematic |-> 1]
        ELSE IF migrated.warnings > 0
        THEN [file |-> JsonFile(migrated.definition), printed |-> "problems",
              problematic |-> 1]
        ELSE [file |-> JsonFile(migrated.definition), printed |-> "",
              problematic |-> 0]

\* the body of the for loop of __main__ that follows json.loads: what the file
\* holds afterwards, what is printed about it, what it adds to the count
migrate_labware_defs_file(definition) ==
    LET migrated == migrate_labware_def(definition)
    IN  IF migrated.raised
        THEN [file |-> JsonFile(definition), printed |-> "internal error",
              problematic |-> 1]
        ELSE IF migrated.warnings > 0
        THEN [file |-> JsonFile(migrated.definition), printed |-> "problems",
              problematic |-> 1]
        ELSE [file |-> JsonFile(migrated.definition), printed |-> "",
              problematic |-> 0]

(***************************************************************************)
(* migrate_to_extents.py                                                   *)
(***************************************************************************)
Extents(x0, y0, z0, x1, y1, z1) ==
    <<  <<"total", << <<"backLeftBottom", Vector(x0, y0, z0)>>,
                      <<"frontRightTop", Vector(x1, y1, z1)>> >> >>  >>

SlotFootprintAsChild(x, y) ==
    <<  <<"slotFootprintAsChild",
          [z |-> 0, backLeft |-> [x |-> 0, y |-> 0],
           frontRight |-> [x |-> x, y |-> y]]>>  >>

\* new_extents of migrate_to_extents.migrate and of update_module_defs.migrate
new_extents(cofs, x_dimension, y_dimension, z_dimension) ==
    Extents(cofs.x, -cofs.y, cofs.z,
            cofs.x + x_dimension, (-cofs.y) + (-y_dimension), cofs.z + z_dimension)

\* the subscripts of migrate_to_extents.migrate that raise KeyError
to_extents_raises(definition) ==
    IF ~(Has(definition, "cornerOffsetFromSlot") /\ Has(definition, "dimensions")
            /\ Has(definition, "wells"))
    THEN TRUE
    ELSE ~(Has(Get(definition, "dimensions"), "xDimension")
            /\ Has(Get(definition, "dimensions"), "yDimension")
            /\ Has(Get(definition, "dimensions"), "zDimension"))

\* the loop that builds new_definition, over the first n items
RECURSIVE to_extents_items(_, _, _, _)
to_extents_items(definition, n, extents, features) ==
    IF n = 0
    THEN EmptyObject
    ELSE LET before == to_extents_items(definition, n - 1, extents, features)
             original_key == definition[n][1]
         IN  IF original_key = "cornerOffsetFromSlot"
             THEN before
             ELSE IF original_key = "dimensions"
             THEN Put(Put(before, "extents", extents), "features", features)
             ELSE Put(before, original_key, definition[n][2])

\* migrate that has lost its first test
migrate_to_extents_again(definition) ==
    IF to_extents_raises(definition)
    THEN Raised(definition)
    ELSE LET dimensions == Get(definition, "dimensions")
             y_dimension == Get(dimensions, "yDimension")
             with_wells == Put(definition, "wells",
                               flip_wells(Get(definition, "wells"), y_dimension))
         IN  Returned(to_extents_items(with_wells, Len(with_wells),
                        new_extents(Get(definition, "cornerOffsetFromSlot"),
                                    Get(dimensions, "xDimension"), y_dimension,
                                    Get(dimensions, "zDimension")),
                        SlotFootprintAsChild(Get(dimensions, "xDimension"),
                                             -y_dimension)),
                      0, "migrated")

\* migrate
migrate_to_extents(definition) ==
    IF Has(definition, "extents")
    THEN Returned(definition, 0, "already migrated, ignoring")
    ELSE IF to_extents_raises(definition)
    THEN Raised(definition)
    ELSE LET dimensions == Get(definition, "dimensions")
             y_dimension == Get(dimensions, "yDimension")
             with_wells == Put(definition, "wells",
                               flip_wells(Get(definition, "wells"), y_dimension))
         IN  Returned(to_extents_items(with_wells, Len(with_wells),
                        new_extents(Get(definition, "cornerOffsetFromSlot"),
                                    Get(dimensions, "xDimension"), y_dimension,
                                    Get(dimensions, "zDimension")),
                        SlotFootprintAsChild(Get(dimensions, "xDimension"),
                                             -y_dimension)),
                      0, "migrated")


(***************************************************************************)
(* update_module_defs.py                                                   *)
(***************************************************************************)
\* the subscripts of update_module_defs.migrate that raise KeyError
module_raises(definition) ==
    IF ~(Has(definition, "cornerOffsetFromSlot") /\ Has(definition, "dimensions"))
    THEN TRUE
    ELSE ~(Has(Get(definition, "dimensions"), "xDimension")
            /\ Has(Get(definition, "dimensions"), "yDimension")
            /\ Has(Get(definition, "dimensions"), "bareOverallHeight"))

\* the loop that builds new_definition, over the first n items
RECURSIVE module_items(_, _, _, _)
module_items(definition, n, extents, features) ==
    IF n = 0
    THEN EmptyObject
    ELSE LET before == module_items(definition, n - 1, extents, features)
             copied == Put(before, definition[n][1], definition[n][2])
         IN  IF definition[n][1] = "dimensions"
             THEN Put(Put(copied, "extents", extents), "features", features)
             ELSE copied

\* migrate
update_module_def(definition) ==
    IF module_raises(definition)
    THEN Raised(definition)
    ELSE LET dimensions == Get(definition, "dimensions")
             x_dimension == Get(dimensions, "xDimension")
             y_dimension == Get(dimensions, "yDimension")
             footprint_x == GetOr(dimensions, "footprintXDimension", x_dimension)
             footprint_y == GetOr(dimensions, "footprintYDimension", y_dimension)
         IN  Returned(module_items(definition, Len(definition),
                        new_extents(Get(definition, "cornerOffsetFromSlot"),
                                    x_dimension, y_dimension,
                                    Get(dimensions, "bareOverallHeight")),
                        SlotFootprintAsChild(footprint_x, -footprint_y)),
                      0, "migrated")

(***************************************************************************)
(* update_deck_definitions.py                                              *)
(***************************************************************************)
area_raises(area) ==
    IF ~Has(area, "boundingBox")
    THEN TRUE
    ELSE ~(Has(Get(area, "boundingBox"), "xDimension")
            /\ Has(Get(area, "boundingBox"), "yDimension")
            /\ Has(Get(area, "boundingBox"), "zDimension"))

\* the loop that builds new_area, over the first n items
RECURSIVE area_items(_, _, _)
area_items(area, n, extents) ==
    IF n = 0
    THEN EmptyObject
    ELSE LET before == area_items(area, n - 1, extents)
             key == area[n][1]
             copied == Put(before, key, area[n][2])
         IN  IF key = "boundingBox"
             THEN Put(copied, "extents", extents)
             ELSE IF key = "extents" /\ ~Has(area, "features")
             THEN Put(copied, "features", EmptyObject)
             ELSE copied

\* migrate_addressable_area, for an area that does not raise
migrate_addressable_area(area) ==
    LET bounding_box == Get(area, "boundingBox")
        new_area == area_items(area, Len(area),
                        Extents(0, 0, 0, Get(bounding_box, "xDimension"),
                                -Get(bounding_box, "yDimension"),
                                Get(bounding_box, "zDimension")))
    IN  IF Has(new_area, "features")
        THEN new_area
        ELSE Put(new_area, "features", EmptyObject)

\* the loop that builds new_locations, over the first n items
RECURSIVE location_items(_, _)
location_items(locations, n) ==
    IF n = 0
    THEN EmptyObject
    ELSE IF locations[n][1] = "addressableAreas"
    THEN Put(location_items(locations, n - 1), "addressableAreas",
             [a \in DOMAIN locations[n][2] |->
                 migrate_addressable_area(locations[n][2][a])])
    ELSE Put(location_items(locations, n - 1), locations[n][1], locations[n][2])

\* the loop that builds new_definition, over the first n items
RECURSIVE deck_items(_, _)
deck_items(definition, n) ==
    IF n = 0
    THEN EmptyObject
    ELSE IF definition[n][1] = "locations"
    THEN Put(deck_items(definition, n - 1), "locations",
             location_items(definition[n][2], Len(definition[n][2])))
    ELSE Put(deck_items(definition, n - 1), definition[n][1], definition[n][2])

is_deck_definition(definition) ==
    IF Has(definition, "locations")
    THEN Has(Get(definition, "locations"), "addressableAreas")
    ELSE FALSE

\* migrate
update_deck_definition(definition) ==
    IF ~is_deck_definition(definition)
    THEN Returned(definition, 0, "skipping")
    ELSE IF \E a \in DOMAIN Get(Get(definition, "locations"), "addressableAreas") :
                area_raises(Get(Get(definition, "locations"), "addressableAreas")[a])
    THEN Raised(definition)
    ELSE Returned(deck_items(definition, Len(definition)), 0, "migrated")

(***************************************************************************)
(* set_well_depth_from_innerlabwaregeometry.py                             *)
(***************************************************************************)
\* process
set_well_depth(definition) ==
    LET inner_labware_geometry == GetOr(definition, "innerLabwareGeometry", EmptyObject)
    IN  IF Len(inner_labware_geometry) # 1
        THEN Returned(definition, 0, "")
        ELSE LET geometries == inner_labware_geometry[1][2]
             IN  IF ~Has(geometries, "sections")
                 THEN Raised(definition)
                 ELSE IF Get(geometries, "sections") = <<>>
                 THEN Raised(definition)
                 ELSE IF ~Has(definition, "wells")
                 THEN Raised(definition)
                 ELSE LET top_section_height == Get(geometries, "sections")[1].topHeight
                          wells == Get(definition, "wells")
                      IN  Returned(Put(definition, "wells",
                                [i \in DOMAIN wells |->
                                    <<wells[i][1],
                                      [wells[i][2] EXCEPT !.depth = top_section_height]>>]),
                              0, "")


(***************************************************************************)
(* The batch loops of the five scripts, and the files they are given.      *)
(***************************************************************************)
MaxFiles == 2
MaxRuns == 2

Scripts == {"migrate_labware_defs", "migrate_to_extents", "update_module_defs",
            "update_deck_definitions", "set_well_depth"}

Well(y) == [y |-> y, depth |-> 1]

\* nothing, or the one item of the key
Optional(key, values) == {EmptyObject} \cup {<< <<key, value>> >> : value \in values}

\* a labware definition of schema 2: the keys the scripts read and one they do not
LabwareDefinition(ordering, wells, corner_offset, geometry) ==
    << <<"ordering", ordering>>,
       <<"dimensions", << <<"xDimension", 20>>, <<"yDimension", 10>>,
                          <<"zDimension", 5>> >> >>,
       <<"wells", wells>>,
       <<"namespace", "opentrons">> >> \o corner_offset \o geometry

\* wells 8 from the front and 2 from the front are centered in a labware 10 deep
WellYs == {2, 8}

OneColumn(a1, b1) ==
    [ordering |-> << <<"A1", "B1">> >>,
     wells |-> << <<"A1", Well(a1)>>, <<"B1", Well(b1)>> >>]

TwoColumns(a2, b2) ==
    [ordering |-> << <<"A1", "B1">>, <<"A2", "B2">> >>,
     wells |-> << <<"A1", Well(8)>>, <<"B1", Well(2)>>,
                  <<"A2", Well(a2)>>, <<"B2", Well(b2)>> >>]

\* an adapter or a lid: no wells at all
NoWells == [ordering |-> <<>>, wells |-> EmptyObject]

WellLayouts ==
    {NoWells}
        \cup {OneColumn(a1, b1) : a1 \in WellYs, b1 \in WellYs}
        \cup {TwoColumns(a2, b2) : a2 \in WellYs, b2 \in WellYs}

CornerOffsets == Optional("cornerOffsetFromSlot", {ZeroVector, Vector(1, 2, 3)})

LabwareFiles ==
    {InvalidJson} \cup
    {JsonFile(LabwareDefinition(layout.ordering, layout.wells, corner_offset,
                                EmptyObject)) :
        layout \in WellLayouts, corner_offset \in CornerOffsets}

ModuleDefinition(footprint, corner_offset) ==
    << <<"moduleType", "heaterShakerModuleType">>,
       <<"dimensions", << <<"bareOverallHeight", 8>>, <<"xDimension", 20>>,
                          <<"yDimension", 10>> >> \o footprint>>,
       <<"model", "heaterShakerModuleV1">> >> \o corner_offset

Footprints ==
    { EmptyObject,
      << <<"footprintXDimension", 18>> >>,
      << <<"footprintXDimension", 18>>, <<"footprintYDimension", 9>> >> }

ModuleFiles ==
    {InvalidJson} \cup
    {JsonFile(ModuleDefinition(footprint, corner_offset)) :
        footprint \in Footprints, corner_offset \in CornerOffsets}

BoundingBox ==
    << <<"xDimension", 20>>, <<"yDimension", 10>>, <<"zDimension", 0>> >>

Areas ==
    { << <<"id", "A1">>, <<"boundingBox", BoundingBox>>, <<"displayName", "Slot A1">> >>,
      << <<"id", "A1">> >>,
      << <<"id", "A1">>, <<"extents", Extents(0, 0, 0, 1, -1, 1)>>,
         <<"boundingBox", BoundingBox>> >>,
      << <<"id", "A1">>, <<"boundingBox", BoundingBox>>,
         <<"features", << <<"slotFootprintAsParent", 1>> >> >> >> }

DeckDefinition(locations) ==
    << <<"otId", "ot3_standard">> >> \o locations \o << <<"robot", "OT-3 Standard">> >>

AreaLists == {<<>>} \cup {<<a>> : a \in Areas} \cup {<<a, b>> : a \in Areas, b \in Areas}

DeckFiles ==
    {InvalidJson, JsonFile(DeckDefinition(EmptyObject)),
     JsonFile(DeckDefinition(<< <<"locations", << <<"cutouts", <<>> >> >> >> >>))} \cup
    {JsonFile(DeckDefinition(
        << <<"locations", << <<"addressableAreas", areas>>,
                             <<"cutouts", <<>> >> >> >> >>)) : areas \in AreaLists}

Geometry(sections) == << <<"sections", sections>> >>

InnerGeometries ==
    Optional("innerLabwareGeometry",
        { << <<"conicalWell", Geometry(<< [topHeight |-> 7], [topHeight |-> 3] >>)>> >>,
          << <<"conicalWell", Geometry(<<>>)>> >>,
          << <<"conicalWell", Geometry(<< [topHeight |-> 7] >>)>>,
             <<"cuboidalWell", Geometry(<< [topHeight |-> 4] >>)>> >> })

WellDepthFiles ==
    {InvalidJson} \cup
    {JsonFile(LabwareDefinition(OneColumn(8, 2).ordering, OneColumn(8, 2).wells,
                                EmptyObject, geometry)) : geometry \in InnerGeometries}

FilesOf(script) ==
    CASE script = "migrate_labware_defs" -> LabwareFiles
      [] script = "migrate_to_extents" -> LabwareFiles
      [] script = "update_module_defs" -> ModuleFiles
      [] script = "update_deck_definitions" -> DeckFiles
      [] script = "set_well_depth" -> WellDepthFiles

NotReached == "not reached"

\* what the script is started on: sys.argv[1:] names the files of mg_disk
InitMigrate ==
    /\ g_idle /\ fr_idle /\ lv_idle /\ dm_idle /\ gr_idle /\ vf_idle
    /\ mg_script \in Scripts
    /\ \E n \in 0..MaxFiles : mg_disk \in [1..n -> FilesOf(mg_script)]
    /\ mg_start = mg_disk
    /\ mg_i = 1
    /\ mg_pc = "start"
    /\ mg_run = 1
    /\ mg_log = [i \in DOMAIN mg_disk |-> NotReached]
    /\ mg_log1 = [i \in DOMAIN mg_disk |-> NotReached]
    /\ mg_problematic = 0

\* if len(sys.argv) < 2: print usage, sys.exit(1); the other scripts have no
\* such test
Start ==
    /\ mg_pc = "start"
    /\ mg_pc' = IF mg_script \in {"update_module_defs", "update_deck_definitions"}
                    /\ Len(mg_disk) = 0
                THEN "usage"
                ELSE "loop"
    /\ UNCHANGED <<mg_script, mg_disk, mg_start, mg_i, mg_run, mg_log, mg_log1,
                   mg_problematic>>
    /\ UNCHANGED <<g_vars, fr_vars, lv_vars, dm_vars, gr_vars, vf_vars>>

InLoop(script) ==
    /\ mg_script = script
    /\ mg_pc = "loop"
    /\ mg_i <= Len(mg_disk)

\* the file of this turn of the loop
path_file == mg_disk[mg_i]

\* an exception leaves the loop and the script
Traceback ==
    /\ mg_pc' = "raised"
    /\ mg_log' = [mg_log EXCEPT ![mg_i] = "traceback"]
    /\ UNCHANGED <<mg_script, mg_disk, mg_start, mg_i, mg_run, mg_log1,
                   mg_problematic>>

\* the loop goes on to the next path
NextPath(file, printed, problematic) ==
    /\ mg_disk' = [mg_disk EXCEPT ![mg_i] = file]
    /\ mg_log' = [mg_log EXCEPT ![mg_i] = printed]
    /\ mg_problematic' = mg_problematic + problematic
    /\ mg_i' = mg_i + 1
    /\ UNCHANGED <<mg_script, mg_start, mg_pc, mg_run, mg_log1>>

\* migrate_labware_defs: json.loads is outside the try
MigrateLabwareDefsFile ==
    /\ InLoop("migrate_labware_defs")
    /\ IF ~path_file.valid
       THEN Traceback
       ELSE LET done == migrate_labware_defs_file(path_file.definition)
            IN  NextPath(done.file, done.printed, done.problematic)
    /\ UNCHANGED <<g_vars, fr_vars, lv_vars, dm_vars, gr_vars, vf_vars>>

\* migrate_to_extents: no try at all
MigrateToExtentsFile ==
    /\ InLoop("migrate_to_extents")
    /\ IF ~path_file.valid
       THEN Traceback
       ELSE LET migrated == migrate_to_extents(path_file.definition)
            IN  IF migrated.raised
                THEN Traceback
                ELSE NextPath(JsonFile(migrated.definition), migrated.printed, 0)
    /\ UNCHANGED <<g_vars, fr_vars, lv_vars, dm_vars, gr_vars, vf_vars>>

\* what `try: loads, migrate, write_text; except Exception: print` does to a file
tried(file, migrated) ==
    IF ~file.valid
    THEN [file |-> file, printed |-> "error"]
    ELSE IF migrated.raised
    THEN [file |-> file, printed |-> "error"]
    ELSE [file |-> JsonFile(migrated.definition), printed |-> migrated.printed]

\* update_module_defs: the whole body of the loop is in the try
UpdateModuleDefsFile ==
    /\ InLoop("update_module_defs")
    /\ LET done == tried(path_file, update_module_def(path_file.definition))
       IN  NextPath(done.file, done.printed, 0)
    /\ UNCHANGED <<g_vars, fr_vars, lv_vars, dm_vars, gr_vars, vf_vars>>

\* update_deck_definitions: the whole body of the loop is in the try
UpdateDeckDefinitionsFile ==
    /\ InLoop("update_deck_definitions")
    /\ LET done == tried(path_file, update_deck_definition(path_file.definition))
       IN  NextPath(done.file, done.printed, 0)
    /\ UNCHANGED <<g_vars, fr_vars, lv_vars, dm_vars, gr_vars, vf_vars>>

\* set_well_depth_from_innerlabwaregeometry: no try at all
SetWellDepthFile ==
    /\ InLoop("set_well_depth")
    /\ IF ~path_file.valid
       THEN Traceback
       ELSE LET output == set_well_depth(path_file.definition)
            IN  IF output.raised
                THEN Traceback
                ELSE NextPath(JsonFile(output.definition), output.printed, 0)
    /\ UNCHANGED <<g_vars, fr_vars, lv_vars, dm_vars, gr_vars, vf_vars>>

\* the loop is over: print(f"Processed {len(paths)} files.")
Processed ==
    /\ mg_pc = "loop"
    /\ mg_i > Len(mg_disk)
    /\ mg_pc' = "done"
    /\ UNCHANGED <<mg_script, mg_disk, mg_start, mg_i, mg_run, mg_log, mg_log1,
                   mg_problematic>>
    /\ UNCHANGED <<g_vars, fr_vars, lv_vars, dm_vars, gr_vars, vf_vars>>

\* the same command line once more, on the files as the last run left them
RunAgain ==
    /\ mg_pc \in {"done", "raised"}
    /\ mg_run < MaxRuns
    /\ mg_run' = mg_run + 1
    /\ mg_pc' = "start"
    /\ mg_i' = 1
    /\ mg_start' = mg_disk
    /\ mg_log1' = mg_log
    /\ mg_log' = [i \in DOMAIN mg_disk |-> NotReached]
    /\ mg_problematic' = 0
    /\ UNCHANGED <<mg_script, mg_disk>>
    /\ UNCHANGED <<g_vars, fr_vars, lv_vars, dm_vars, gr_vars, vf_vars>>

NextMigrate ==
    \/ Start
    \/ MigrateLabwareDefsFile
    \/ MigrateToExtentsFile
    \/ UpdateModuleDefsFile
    \/ UpdateDeckDefinitionsFile
    \/ SetWellDepthFile
    \/ Processed
    \/ RunAgain

SpecMigrate == InitMigrate /\ [][NextMigrate]_vars

(***************************************************************************)
(* Statements about the migrators.                                         *)
(***************************************************************************)
Migrators == {"migrate_labware_defs", "migrate_to_extents", "update_module_defs",
              "update_deck_definitions"}

\* the paths the loop of the current run has left behind it, and the one it
\* raised on
handled == {i \in DOMAIN mg_disk : i < mg_i \/ (i = mg_i /\ mg_pc = "raised")}

\* what a run prints about a file it could not migrate
ErrorsPrinted == {"traceback", "internal error", "error", "problems", "skipping"}

\* whether a run that printed this about a file wrote the file
written_by(printed) == printed \notin {NotReached, "traceback", "internal error", "error"}

\* every well of `after` is the well of `before`, y_dimension further to the front
WellsRebased(before, after) ==
    /\ Keys(Get(after, "wells")) = Keys(Get(before, "wells"))
    /\ \A i \in DOMAIN Get(before, "wells") :
        /\ Get(after, "wells")[i][2].y
            = Get(before, "wells")[i][2].y - Get(Get(before, "dimensions"), "yDimension")
        /\ Get(after, "wells")[i][2].depth = Get(before, "wells")[i][2].depth

\* the keys of `before` other than `changed` are in `after`, with their values
\* and in their order
OthersKept(before, after, changed) ==
    SelectSeq(after, LAMBDA item : item[1] \notin changed)
        = SelectSeq(before, LAMBDA item : item[1] \notin changed)

\* `after` is the whole migration of `before`, as the script prints it
FullyTransformed(script, before, after, printed) ==
    CASE script = "migrate_labware_defs" ->
            /\ printed = ""
            /\ Has(before, "cornerOffsetFromSlot")
            /\ ~Has(after, "cornerOffsetFromSlot")
            /\ WellsRebased(before, after)
            /\ OthersKept(before, after, {"wells", "cornerOffsetFromSlot"})
            /\ Keys(after) = Keys(Del(before, "cornerOffsetFromSlot"))
      [] script = "migrate_to_extents" ->
            IF Has(before, "extents")
            THEN after = before /\ printed = "already migrated, ignoring"
            ELSE /\ printed = "migrated"
                 /\ Has(after, "extents") /\ Has(after, "features")
                 /\ ~Has(after, "cornerOffsetFromSlot") /\ ~Has(after, "dimensions")
                 /\ WellsRebased(before, after)
                 /\ OthersKept(before, after,
                        {"wells", "cornerOffsetFromSlot", "dimensions", "extents",
                         "features"})
      [] script = "update_module_defs" ->
            /\ printed = "migrated"
            /\ Has(after, "extents") /\ Has(after, "features")
            /\ OthersKept(before, after, {"extents", "features"})
      [] script = "update_deck_definitions" ->
            /\ printed = "migrated"
            /\ OthersKept(before, after, {"locations"})
            /\ OthersKept(Get(before, "locations"), Get(after, "locations"),
                          {"addressableAreas"})
            /\ LET old == Get(Get(before, "locations"), "addressableAreas")
                   new == Get(Get(after, "locations"), "addressableAreas")
               IN  /\ Len(new) = Len(old)
                   /\ \A a \in DOMAIN old :
                        /\ Has(new[a], "extents") /\ Has(new[a], "features")
                        /\ OthersKept(old[a], new[a], {"extents", "features"})

\* migrate_labware_defs applied one of its two steps and warned about the other
PartlyTransformed(before, after, printed) ==
    /\ printed = "problems"
    /\ Has(before, "cornerOffsetFromSlot")
    /\ \/ /\ Get(before, "cornerOffsetFromSlot") # ZeroVector
          /\ all_columns_centered(before)
          /\ WellsRebased(before, after)
          /\ after = Put(before, "wells", Get(after, "wells"))
       \/ /\ Get(before, "cornerOffsetFromSlot") = ZeroVector
          /\ ~all_columns_centered(before)
          /\ after = Del(before, "cornerOffsetFromSlot")

\* C3: when a run of a script has ended, no file of its list is left unread:
\* a failure on one file does not keep the loop from the files after it.
C3_FailureDoesNotStopBatch ==
    mg_pc \in {"done", "raised"} =>
        \A i \in DOMAIN mg_disk : mg_log[i] # NotReached

\* C4 as the specification states it: a file a migrator has handled is the
\* fully transformed definition, or is as it was with an error printed.
C4_FullOrUnchanged ==
    mg_script \in Migrators =>
        \A i \in handled :
            IF mg_disk[i] = mg_start[i]
            THEN \/ mg_log[i] \in ErrorsPrinted
                 \/ /\ mg_start[i].valid
                    /\ FullyTransformed(mg_script, mg_start[i].definition,
                                        mg_disk[i].definition, mg_log[i])
            ELSE /\ mg_start[i].valid
                 /\ FullyTransformed(mg_script, mg_start[i].definition,
                                     mg_disk[i].definition, mg_log[i])

\* C4, amended: a file a migrator has handled is the fully transformed
\* definition, or is as it was with an error printed, or, in
\* migrate_labware_defs only, is the definition with the one step applied that
\* could be applied (wells re-based and a non-zero cornerOffsetFromSlot kept,
\* or a zero cornerOffsetFromSlot removed and uncentered wells kept), printed
\* as a problem and counted in problematic_file_count.
C4_FullPartlyWithWarningOrUnchanged ==
    mg_script \in Migrators =>
        \A i \in handled :
            IF mg_disk[i] = mg_start[i]
            THEN \/ mg_log[i] \in ErrorsPrinted
                 \/ /\ mg_start[i].valid
                    /\ FullyTransformed(mg_script, mg_start[i].definition,
                                        mg_disk[i].definition, mg_log[i])
            ELSE /\ mg_start[i].valid
                 /\ IF mg_script = "migrate_labware_defs" /\ mg_log[i] = "problems"
                    THEN /\ PartlyTransformed(mg_start[i].definition,
                                              mg_disk[i].definition, mg_log[i])
                         /\ mg_problematic >= 1
                    ELSE FullyTransformed(mg_script, mg_start[i].definition,
                                          mg_disk[i].definition, mg_log[i])

\* migrate_labware_defs has written a file with its wells re-based and its
\* non-zero cornerOffsetFromSlot kept
C4_Witness ==
    /\ mg_script = "migrate_labware_defs"
    /\ mg_pc = "done"
    /\ \E i \in handled :
        /\ mg_log[i] = "problems"
        /\ mg_disk[i] # mg_start[i]
        /\ Has(mg_disk[i].definition, "cornerOffsetFromSlot")
        /\ WellsRebased(mg_start[i].definition, mg_disk[i].definition)

\* the files of a run after the first that the run before wrote
own_output == {i \in handled : mg_run > 1 /\ written_by(mg_log1[i])}

\* C5 as the specification states it: every migrator leaves a file it wrote
\* itself as it is, and prints that it is already migrated and skipped.
C5_SecondRunSkips ==
    mg_script \in Migrators =>
        \A i \in own_output :
            /\ mg_disk[i] = mg_start[i]
            /\ mg_log[i] = "already migrated, ignoring"

\* C5, amended: every migrator leaves a file it wrote itself as it is, every
\* key, value and key position; only migrate_to_extents finds the new field
\* and prints that the file is already migrated.
C5_SecondRunChangesNothing ==
    mg_script \in Migrators =>
        \A i \in own_output :
            /\ mg_disk[i] = mg_start[i]
            /\ mg_script = "migrate_to_extents" =>
                    mg_log[i] = "already migrated, ignoring"

\* update_module_defs has migrated a file in one run and has printed "migrated"
\* about it again in the next
C5_Witness ==
    /\ mg_script = "update_module_defs"
    /\ mg_run = 2
    /\ mg_pc = "done"
    /\ \E i \in own_output :
        /\ mg_log1[i] = "migrated"
        /\ mg_log[i] = "migrated"
        /\ Has(mg_disk[i].definition, "extents")

(***************************************************************************)
(* import_dimensions_from_hw.py                                            *)
(*                                                                         *)
(* A CSV cell is blank, a number, or some other text such as "N/A".  The   *)
(* numbers are decimal.Decimal in the script and whole millimetres here;   *)
(* the script adds, subtracts and multiplies them, which Decimal does      *)
(* exactly.  A number of a definition is held the same way, so that a      *)
(* field of a well can hold the text the CSV had in its place.             *)
(***************************************************************************)
Number(n) == [kind |-> "number", value |-> n]
Text == [kind |-> "text", value |-> 0]
Blank == [kind |-> "blank", value |-> 0]

\* the cells of one CSV row in the columns of the twelve headers
CsvRow(name, depth, diameter, x_size, y_size, length, width, height,
       x_offset, y_offset, x_spacing, y_spacing) ==
    [api_load_name |-> name, hw_depth |-> depth, hw_diameter |-> diameter,
     hw_x_size |-> x_size, hw_y_size |-> y_size, hw_length |-> length,
     hw_width |-> width, hw_height |-> height, hw_x_offset |-> x_offset,
     hw_y_offset |-> y_offset, hw_x_spacing |-> x_spacing,
     hw_y_spacing |-> y_spacing]

BlankRow ==
    CsvRow("", Blank, Blank, Blank, Blank, Blank, Blank, Blank, Blank, Blank,
           Blank, Blank)

\* isinstance(value, Decimal) for a field typed `Decimal | str`, and what a
\* field typed Decimal accepts
is_decimal(cell) == cell.kind = "number"

\* DefinitionInfo.model_validate raises pydantic.ValidationError
validation_fails(row) ==
    ~(is_decimal(row.hw_depth) /\ is_decimal(row.hw_width)
        /\ is_decimal(row.hw_height) /\ is_decimal(row.hw_x_offset)
        /\ is_decimal(row.hw_y_offset))

\* the same item, made without validating the row
extraction_result_unvalidated(row_index, row) ==
    [row_index |-> row_index, is_error |-> FALSE, info |-> row]

\* one item of the result of extract_definition_info_from_csv
extraction_result(row_index, row) ==
    [row_index |-> row_index, is_error |-> validation_fails(row), info |-> row]

\* the loop of extract_definition_info_from_csv over the first n rows below
\* the header row; a row with nothing in the twelve columns is dropped
RECURSIVE extract_rows(_, _)
extract_rows(rows, n) ==
    IF n = 0
    THEN <<>>
    ELSE IF rows[n] = BlankRow
    THEN extract_rows(rows, n - 1)
    ELSE Append(extract_rows(rows, n - 1), extraction_result(n, rows[n]))

\* extract_definition_info_from_csv: find_csv_header raises unless each header
\* is in exactly one cell, and the headers must share a row
extract_definition_info_from_csv(csv) ==
    IF csv.headers # "one row"
    THEN [raised |-> TRUE, result |-> <<>>]
    ELSE [raised |-> FALSE, result |-> extract_rows(csv.rows, Len(csv.rows))]

\* a well of a definition: a dict whose keys tell its shape
CircularWell(depth, diameter, x, y, z) ==
    << <<"depth", Number(depth)>>, <<"shape", "circular">>,
       <<"diameter", Number(diameter)>>,
       <<"x", Number(x)>>, <<"y", Number(y)>>, <<"z", Number(z)>> >>

RectangularWell(depth, x_dimension, y_dimension, x, y, z) ==
    << <<"depth", Number(depth)>>, <<"shape", "rectangular">>,
       <<"xDimension", Number(x_dimension)>>, <<"yDimension", Number(y_dimension)>>,
       <<"x", Number(x)>>, <<"y", Number(y)>>, <<"z", Number(z)>> >>

ShapelessWell(depth, x, y, z) ==
    << <<"depth", Number(depth)>>,
       <<"x", Number(x)>>, <<"y", Number(y)>>, <<"z", Number(z)>> >>

\* the well with its size keys dropped where the CSV has no number for them
resized_dropping_keys(well, new_info) ==
    IF Has(well, "diameter")
    THEN IF is_decimal(new_info.hw_diameter)
         THEN Put(well, "diameter", new_info.hw_diameter)
         ELSE Del(well, "diameter")
    ELSE Put(Put(well, "xDimension", new_info.hw_x_size),
             "yDimension", new_info.hw_y_size)

\* the well with its size from the CSV: diameter, or xDimension and yDimension
resized(well, new_info) ==
    IF Has(well, "diameter")
    THEN Put(well, "diameter", new_info.hw_diameter)
    ELSE Put(Put(well, "xDimension", new_info.hw_x_size),
             "yDimension", new_info.hw_y_size)

\* y measured from the front wall, not turned around the width
well_y_from_front(new_info, y_spacing, row_index) ==
    Number(new_info.hw_y_offset.value + y_spacing * row_index)

\* well["y"]
well_y(new_info, y_spacing, row_index) ==
    Number(new_info.hw_width.value - new_info.hw_y_offset.value
            - y_spacing * row_index)

\* the body of the two loops of rewrite_definition for the well at
\* (col_index, row_index), both counted from 0
rewrite_well(definition, new_info, col_index, row_index) ==
    LET ordering == Get(definition, "ordering")
        col == ordering[col_index + 1]
        well_name == col[row_index + 1]
        wells == Get(definition, "wells")
        with(well) == Put(definition, "wells", Put(wells, well_name, well))
    IN  IF ~Has(wells, well_name)
        THEN Raised(definition)
        ELSE
        LET well == Get(wells, well_name)
            deep == Put(well, "depth", new_info.hw_depth)
            sized == resized(deep, new_info)
            x_spacing == IF Len(ordering) = 1 THEN 0 ELSE new_info.hw_x_spacing.value
            y_spacing == IF Len(col) = 1 THEN 0 ELSE new_info.hw_y_spacing.value
        IN  IF ~Has(deep, "diameter")
                /\ ~(Has(deep, "xDimension") /\ Has(deep, "yDimension"))
            THEN Raised(with(deep))
            ELSE IF Len(ordering) # 1 /\ ~is_decimal(new_info.hw_x_spacing)
            THEN Raised(with(sized))
            ELSE IF Len(col) # 1 /\ ~is_decimal(new_info.hw_y_spacing)
            THEN Raised(with(sized))
            ELSE Returned(
                    with(Put(Put(Put(sized,
                        "x", Number(new_info.hw_x_offset.value + x_spacing * col_index)),
                        "y", well_y(new_info, y_spacing, row_index)),
                        "z", Number(new_info.hw_height.value - new_info.hw_depth.value))),
                    0, "")

\* the (col_index, row_index) of the wells in the order the loops reach them
RECURSIVE well_positions(_, _)
well_positions(ordering, n) ==
    IF n = 0
    THEN <<>>
    ELSE well_positions(ordering, n - 1)
            \o [r \in 1..Len(ordering[n]) |-> <<n - 1, r - 1>>]

\* the two loops, over the first n wells: they stop at the first raise
RECURSIVE rewrite_wells(_, _, _, _)
rewrite_wells(definition, new_info, positions, n) ==
    IF n = 0
    THEN Returned(definition, 0, "")
    ELSE LET before == rewrite_wells(definition, new_info, positions, n - 1)
         IN  IF before.raised
             THEN before
             ELSE rewrite_well(before.definition, new_info,
                               positions[n][1], positions[n][2])

\* rewrite_definition: what it raises and what it leaves in `definition`
rewrite_definition(definition, new_info) ==
    IF ~Has(definition, "cornerOffsetFromSlot")
    THEN Raised(definition)
    ELSE IF Get(definition, "cornerOffsetFromSlot") # ZeroVector
    THEN Raised(definition)
    ELSE IF ~(Has(definition, "ordering") /\ Has(definition, "wells"))
    THEN Raised(definition)
    ELSE LET positions == well_positions(Get(definition, "ordering"),
                                         Len(Get(definition, "ordering")))
             rewritten == rewrite_wells(definition, new_info, positions, Len(positions))
         IN  IF rewritten.raised
             THEN rewritten
             ELSE IF ~Has(rewritten.definition, "dimensions")
             THEN Raised(rewritten.definition)
             ELSE Returned(
                    Put(rewritten.definition, "dimensions",
                        Put(Put(Put(Get(rewritten.definition, "dimensions"),
                            "xDimension", new_info.hw_length),
                            "yDimension", new_info.hw_width),
                            "zDimension", new_info.hw_height)),
                    0, "")

\* the *.json files of definition_root_dir / load_name: numbered[n] is <n>.json,
\* draft is <<>> or holds draft.json
DefinitionDir(numbered, draft) == [numbered |-> numbered, draft |-> draft]
NoDir == DefinitionDir(<<>>, <<>>)

\* find_latest_definition of this script: draft.json sorts after every number
find_latest_definition_by_sort_key(dir) ==
    IF dir.draft # <<>>
    THEN [raised |-> FALSE, stem |-> "draft", version |-> 0]
    ELSE IF Len(dir.numbered) = 0
    THEN [raised |-> TRUE, stem |-> "", version |-> 0]
    ELSE [raised |-> FALSE, stem |-> "number", version |-> Len(dir.numbered)]

\* definition_path.read_bytes() and definition_path.write_text(...)
read_file(dir, latest) ==
    IF latest.stem = "draft" THEN dir.draft[1] ELSE dir.numbered[latest.version]

write_file(dir, latest, file) ==
    IF latest.stem = "draft"
    THEN [dir EXCEPT !.draft = <<file>>]
    ELSE [dir EXCEPT !.numbered[latest.version] = file]

\* the try block of __main__ with the write_text that follows it, written
\* where the rewrite has raised too
try_rewrite_always_writing(dir, new_info) ==
    LET latest == find_latest_definition_by_sort_key(dir)
        file == read_file(dir, latest)
        rewritten == rewrite_definition(file.definition, new_info)
    IN  IF latest.raised
        THEN [raised |-> TRUE, dir |-> dir]
        ELSE IF ~file.valid
        THEN [raised |-> TRUE, dir |-> dir]
        ELSE [raised |-> rewritten.raised,
              dir |-> write_file(dir, latest, JsonFile(rewritten.definition))]

\* the try block of __main__ with the write_text that follows it: whether the
\* block raised and what the directory holds afterwards
try_rewrite(dir, new_info) ==
    LET latest == find_latest_definition_by_sort_key(dir)
        file == read_file(dir, latest)
        rewritten == rewrite_definition(file.definition, new_info)
    IN  IF latest.raised
        THEN [raised |-> TRUE, dir |-> dir]
        ELSE IF ~file.valid
        THEN [raised |-> TRUE, dir |-> dir]
        ELSE IF rewritten.raised
        THEN [raised |-> TRUE, dir |-> dir]
        ELSE [raised |-> FALSE,
              dir |-> write_file(dir, latest, JsonFile(rewritten.definition))]

\* csv_rows is read and extract_definition_info_from_csv is called
Extract ==
    /\ dm_pc = "start"
    /\ LET extracted == extract_definition_info_from_csv(dm_csv)
       IN  /\ dm_results' = extracted.result
           /\ dm_pc' = IF extracted.raised THEN "raised" ELSE "loop"
    /\ UNCHANGED <<dm_csv, dm_i, dm_disk, dm_disk0, dm_successes,
                   dm_failed_extractions, dm_failed_rewrites>>
    /\ UNCHANGED <<g_vars, fr_vars, lv_vars, mg_vars, gr_vars, vf_vars>>

InRowLoop == dm_pc = "loop" /\ dm_i <= Len(dm_results)

extraction == dm_results[dm_i]

\* if isinstance(extraction_result, pydantic.ValidationError)
AppendFailedExtraction ==
    /\ InRowLoop
    /\ extraction.is_error
    /\ dm_failed_extractions' = Append(dm_failed_extractions, extraction.row_index)
    /\ dm_i' = dm_i + 1
    /\ UNCHANGED <<dm_csv, dm_results, dm_pc, dm_disk, dm_disk0, dm_successes,
                   dm_failed_rewrites>>
    /\ UNCHANGED <<g_vars, fr_vars, lv_vars, mg_vars, gr_vars, vf_vars>>

\* except Exception as exception
AppendFailedRewrite ==
    /\ InRowLoop
    /\ ~extraction.is_error
    /\ LET name == extraction.info.api_load_name
           tried_rewrite == try_rewrite(dm_disk[name], extraction.info)
       IN  /\ tried_rewrite.raised
           /\ dm_disk' = [dm_disk EXCEPT ![name] = tried_rewrite.dir]
           /\ dm_failed_rewrites' =
                Append(dm_failed_rewrites, <<extraction.row_index, name>>)
    /\ dm_i' = dm_i + 1
    /\ UNCHANGED <<dm_csv, dm_results, dm_pc, dm_disk0, dm_successes,
                   dm_failed_extractions>>
    /\ UNCHANGED <<g_vars, fr_vars, lv_vars, mg_vars, gr_vars, vf_vars>>

\* definition_path.write_text(...); successes.append(...)
AppendSuccess ==
    /\ InRowLoop
    /\ ~extraction.is_error
    /\ LET name == extraction.info.api_load_name
           tried_rewrite == try_rewrite(dm_disk[name], extraction.info)
       IN  /\ ~tried_rewrite.raised
           /\ dm_disk' = [dm_disk EXCEPT ![name] = tried_rewrite.dir]
           /\ dm_successes' = Append(dm_successes, <<extraction.row_index, name>>)
    /\ dm_i' = dm_i + 1
    /\ UNCHANGED <<dm_csv, dm_results, dm_pc, dm_disk0, dm_failed_extractions,
                   dm_failed_rewrites>>
    /\ UNCHANGED <<g_vars, fr_vars, lv_vars, mg_vars, gr_vars, vf_vars>>

\* the loop is over and the three buckets are printed
PrintBuckets ==
    /\ dm_pc = "loop"
    /\ dm_i > Len(dm_results)
    /\ dm_pc' = "done"
    /\ UNCHANGED <<dm_csv, dm_results, dm_i, dm_disk, dm_disk0, dm_successes,
                   dm_failed_extractions, dm_failed_rewrites>>
    /\ UNCHANGED <<g_vars, fr_vars, lv_vars, mg_vars, gr_vars, vf_vars>>

MaxRows == 2

\* the names of the wells in the order of the ordering
well_names(ordering) ==
    LET positions == well_positions(ordering, Len(ordering))
    IN  [i \in DOMAIN positions |-> ordering[positions[i][1] + 1][positions[i][2] + 1]]

\* a labware definition of schema 2 with the keys rewrite_definition reads;
\* shape_of gives each well its keys
DimensionedDefinition(ordering, shape_of, corner_offset) ==
    << <<"ordering", ordering>> >> \o corner_offset \o
    << <<"dimensions", << <<"xDimension", Number(100)>>, <<"yDimension", Number(70)>>,
                          <<"zDimension", Number(15)>> >> >>,
       <<"wells", [i \in DOMAIN well_names(ordering) |->
                    <<well_names(ordering)[i],
                      CASE shape_of[well_names(ordering)[i]] = "circular" ->
                                CircularWell(1, 2, 3, 4, 5)
                        [] shape_of[well_names(ordering)[i]] = "rectangular" ->
                                RectangularWell(1, 2, 2, 3, 4, 5)
                        [] OTHER -> ShapelessWell(1, 3, 4, 5)>>]>> >>

WellNames == {"A1", "B1", "A2", "B2"}

Orderings ==
    { << <<"A1">> >>,
      << <<"A1", "B1">> >>,
      << <<"A1">>, <<"A2">> >>,
      << <<"A1", "B1">>, <<"A2", "B2">> >>,
      << <<"A1", "B1">>, <<"A2">> >> }

AllWells(shape) == [name \in WellNames |-> shape]

ZeroCornerOffset == << <<"cornerOffsetFromSlot", ZeroVector>> >>

DimensionedDefinitions ==
    {DimensionedDefinition(ordering, AllWells("circular"), ZeroCornerOffset) :
        ordering \in Orderings}
    \cup
    {DimensionedDefinition(ordering, AllWells(shape), ZeroCornerOffset) :
        ordering \in {<< <<"A1">> >>, << <<"A1", "B1">>, <<"A2", "B2">> >>},
        shape \in {"rectangular", "none"}}
    \cup
    {DimensionedDefinition(<< <<"A1", "B1">>, <<"A2", "B2">> >>,
                           [AllWells("circular") EXCEPT !["B1"] = "none"],
                           ZeroCornerOffset)}
    \cup
    {DimensionedDefinition(<< <<"A1", "B1">>, <<"A2", "B2">> >>,
                           AllWells("circular"), corner_offset) :
        corner_offset \in {EmptyObject,
                           << <<"cornerOffsetFromSlot", Vector(0, 0, 1)>> >>}}

\* the directory of lw_a holds 1.json alone
DirsOfA ==
    {DefinitionDir(<<InvalidJson>>, <<>>)}
    \cup {DefinitionDir(<<JsonFile(definition)>>, <<>>) :
            definition \in DimensionedDefinitions}

\* the directory of lw_b holds 1.json, 2.json and perhaps draft.json
DirsOfB ==
    LET older == JsonFile(DimensionedDefinition(<< <<"A1">> >>, AllWells("circular"),
                                                ZeroCornerOffset))
        newer == JsonFile(DimensionedDefinition(<< <<"A1", "B1">> >>,
                                                AllWells("circular"), ZeroCornerOffset))
    IN  {DefinitionDir(<<older, newer>>, <<>>), DefinitionDir(<<older, newer>>, <<older>>)}

RowOf(name, depth, x_spacing, y_spacing) ==
    CsvRow(name, depth, Number(6), Number(7), Number(5), Number(120), Number(80),
           Number(20), Number(10), Number(12), x_spacing, y_spacing)

RowValues ==
    {BlankRow}
    \cup {RowOf("lw_a", Number(4), x_spacing, y_spacing) :
            x_spacing \in {Number(9), Text}, y_spacing \in {Number(8), Text}}
    \cup {RowOf("lw_a", Text, Number(9), Number(8)),
          RowOf("lw_none", Number(4), Number(9), Number(8)),
          RowOf("", Number(4), Number(9), Number(8)),
          CsvRow("lw_b", Number(4), Text, Text, Text, Text, Number(80), Number(20),
                 Number(10), Number(12), Blank, Number(8))}

HeaderLayouts == {"one row", "header missing or twice", "two rows"}

\* sys.argv[1] is the definitions root, sys.argv[2] the CSV
InitDimensions ==
    /\ g_idle /\ fr_idle /\ lv_idle /\ mg_idle /\ gr_idle /\ vf_idle
    /\ \E headers \in HeaderLayouts, n \in 0..MaxRows :
        \E rows \in [1..n -> RowValues] :
            dm_csv = [headers |-> headers, rows |-> rows]
    /\ \E dir_a \in DirsOfA, dir_b \in DirsOfB :
        dm_disk = [name \in {"lw_a", "lw_b", "lw_none", ""} |->
                    CASE name = "lw_a" -> dir_a
                      [] name = "lw_b" -> dir_b
                      [] OTHER -> NoDir]
    /\ dm_disk0 = dm_disk
    /\ dm_results = <<>>
    /\ dm_i = 1
    /\ dm_pc = "start"
    /\ dm_successes = <<>>
    /\ dm_failed_extractions = <<>>
    /\ dm_failed_rewrites = <<>>

NextDimensions ==
    \/ Extract
    \/ AppendFailedExtraction
    \/ AppendFailedRewrite
    \/ AppendSuccess
    \/ PrintBuckets

SpecDimensions == InitDimensions /\ [][NextDimensions]_vars

(***************************************************************************)
(* Statements about import_dimensions_from_hw.                             *)
(***************************************************************************)
\* the result the loop of __main__ has just left behind it
last_result == dm_results[dm_i - 1]

\* the last turn of the loop ended in successes
last_succeeded ==
    /\ dm_pc \in {"loop", "done"}
    /\ dm_i > 1
    /\ dm_successes # <<>>
    /\ dm_successes[Len(dm_successes)][1] = last_result.row_index

\* the latest file of a directory, as it is on disk
latest_file(dir) == read_file(dir, find_latest_definition_by_sort_key(dir))

\* C11: after a successful rewrite the well at column c, row r of the ordering
\* (counted from 0) has x = x-offset + x-spacing * c, y = width - y-offset -
\* y-spacing * r, z = height - depth, with a spacing of 0 for a single column
\* or a single row and the numeric CSV spacing otherwise, and the dimensions
\* of the definition are the length, width and height of the row.
C11_WellPositions ==
    last_succeeded =>
        LET info == last_result.info
            definition == latest_file(dm_disk[info.api_load_name]).definition
            ordering == Get(definition, "ordering")
            dimensions == Get(definition, "dimensions")
        IN  /\ \A c \in DOMAIN ordering : \A r \in DOMAIN ordering[c] :
                LET well == Get(Get(definition, "wells"), ordering[c][r])
                    x_spacing == IF Len(ordering) = 1 THEN 0
                                 ELSE info.hw_x_spacing.value
                    y_spacing == IF Len(ordering[c]) = 1 THEN 0
                                 ELSE info.hw_y_spacing.value
                IN  /\ Len(ordering) # 1 => info.hw_x_spacing.kind = "number"
                    /\ Len(ordering[c]) # 1 => info.hw_y_spacing.kind = "number"
                    /\ Get(well, "x") = Number(info.hw_x_offset.value
                                                + x_spacing * (c - 1))
                    /\ Get(well, "y") = Number(info.hw_width.value
                                                - info.hw_y_offset.value
                                                - y_spacing * (r - 1))
                    /\ Get(well, "z") = Number(info.hw_height.value
                                                - info.hw_depth.value)
            /\ Get(dimensions, "xDimension") = info.hw_length
            /\ Get(dimensions, "yDimension") = info.hw_width
            /\ Get(dimensions, "zDimension") = info.hw_height

\* a definition of two columns, one of them with two rows, has been rewritten
\* from a row with numeric spacings, and its last well has moved
C11_Witness ==
    /\ last_succeeded
    /\ dm_pc = "done"
    /\ LET info == last_result.info
           definition == latest_file(dm_disk[info.api_load_name]).definition
           ordering == Get(definition, "ordering")
       IN  /\ Len(ordering) = 2
           /\ Len(ordering[1]) = 2
           /\ info.hw_x_spacing = Number(9)
           /\ Get(Get(Get(definition, "wells"), "B1"), "y") = Number(60)
           /\ Get(Get(Get(definition, "wells"), "A2"), "x") = Number(19)

\* a well of the ordering has neither diameter nor both xDimension and yDimension
some_well_shapeless(definition) ==
    \E c \in DOMAIN Get(definition, "ordering") :
        \E r \in DOMAIN Get(definition, "ordering")[c] :
            LET well == Get(Get(definition, "wells"), Get(definition, "ordering")[c][r])
            IN  ~Has(well, "diameter")
                    /\ ~(Has(well, "xDimension") /\ Has(well, "yDimension"))

\* the spacing a definition needs is not a number in the row
spacing_missing(definition, info) ==
    LET ordering == Get(definition, "ordering")
    IN  \/ /\ Len(ordering) > 1
           /\ \E c \in DOMAIN ordering : Len(ordering[c]) > 0
           /\ info.hw_x_spacing.kind # "number"
        \/ /\ \E c \in DOMAIN ordering : Len(ordering[c]) > 1
           /\ info.hw_y_spacing.kind # "number"

\* four reasons for a lookup or a rewrite to raise
C12_MustRaise(dir, info) ==
    IF dir.draft = <<>> /\ dir.numbered = <<>>
    THEN TRUE
    ELSE IF ~latest_file(dir).valid
    THEN FALSE
    ELSE LET definition == latest_file(dir).definition
         IN  IF ~Has(definition, "cornerOffsetFromSlot")
             THEN FALSE
             ELSE \/ Get(definition, "cornerOffsetFromSlot") # ZeroVector
                  \/ spacing_missing(definition, info)
                  \/ some_well_shapeless(definition)

C12_StepOfFailedRewrite ==
    /\ InRowLoop
    /\ ~extraction.is_error
    /\ dm_i' = dm_i + 1
    /\ \/ C12_MustRaise(dm_disk[extraction.info.api_load_name], extraction.info)
       \/ dm_failed_rewrites' # dm_failed_rewrites

\* C12: a turn of the loop in which lookup or rewrite raises (no file for the
\* load name, cornerOffsetFromSlot not zero, a spacing that is needed and is
\* not a number, a well of neither shape, or anything else that lands the row
\* in failed_rewrites) changes no file, appends the row with its load name to
\* failed_rewrites and to no other bucket, and leaves the loop running.
C12_FailedRewriteLeavesFile ==
    [][C12_StepOfFailedRewrite =>
        /\ dm_disk' = dm_disk
        /\ dm_failed_rewrites' =
            Append(dm_failed_rewrites,
                   <<extraction.row_index, extraction.info.api_load_name>>)
        /\ dm_successes' = dm_successes
        /\ dm_failed_extractions' = dm_failed_extractions
        /\ dm_pc' = "loop"]_vars

\* the rewrite of lw_a raised at its second well with the first one edited in
\* memory, the file is as it was, and the row after it was rewritten
C12_Witness ==
    /\ dm_pc = "done"
    /\ Len(dm_failed_rewrites) = 1
    /\ dm_failed_rewrites[1] = <<1, "lw_a">>
    /\ dm_successes = << <<2, "lw_b">> >>
    /\ dm_disk["lw_a"] = dm_disk0["lw_a"]
    /\ dm_disk["lw_b"] # dm_disk0["lw_b"]
    /\ latest_file(dm_disk["lw_a"]).valid
    /\ Has(latest_file(dm_disk["lw_a"]).definition, "cornerOffsetFromSlot")
    /\ Has(latest_file(dm_disk["lw_a"]).definition, "wells")
    /\ LET definition == latest_file(dm_disk["lw_a"]).definition
       IN  /\ Get(definition, "cornerOffsetFromSlot") = ZeroVector
           /\ Has(Get(definition, "wells"), "A1")
           /\ Has(Get(definition, "wells"), "B1")
           /\ Has(Get(Get(definition, "wells"), "A1"), "diameter")
           /\ ~Has(Get(Get(definition, "wells"), "B1"), "diameter")
           /\ dm_results[1].info.hw_x_spacing.kind = "number"
           /\ dm_results[1].info.hw_y_spacing.kind = "number"

\* this turn of the loop has the row of the turn before it, which succeeded
C13_StepOnRewritten ==
    /\ InRowLoop
    /\ ~extraction.is_error
    /\ last_succeeded
    /\ last_result.info = extraction.info
    /\ dm_i' = dm_i + 1

\* C13: a row applied to the definition it has just rewritten succeeds again
\* and leaves every field of the file as the first rewrite left it: the x, y,
\* z, depth and size of each well and the dimensions.
C13_RewriteIsIdempotent ==
    [][C13_StepOnRewritten =>
        /\ dm_successes' =
            Append(dm_successes,
                   <<extraction.row_index, extraction.info.api_load_name>>)
        /\ dm_failed_rewrites' = dm_failed_rewrites
        /\ dm_disk' = dm_disk]_vars

\* a row without numeric spacings has rewritten the one well of lw_a twice
C13_Witness ==
    /\ dm_pc = "done"
    /\ dm_successes = << <<1, "lw_a">>, <<2, "lw_a">> >>
    /\ dm_results[1].info = dm_results[2].info
    /\ dm_results[1].info.hw_x_spacing.kind = "text"
    /\ dm_results[1].info.hw_y_spacing.kind = "text"
    /\ dm_disk["lw_a"] # dm_disk0["lw_a"]

\* how many times each bucket holds the row of index n
in_successes(n) ==
    Cardinality({k \in DOMAIN dm_successes : dm_successes[k][1] = n})

in_failed_extractions(n) ==
    Cardinality({k \in DOMAIN dm_failed_extractions :
                    dm_failed_extractions[k] = n})

in_failed_rewrites(n) ==
    Cardinality({k \in DOMAIN dm_failed_rewrites : dm_failed_rewrites[k][1] = n})

\* a cell of one of the five Decimal fields is not a number
C14_FieldIsInvalid(row) ==
    \E cell \in {row.hw_depth, row.hw_width, row.hw_height, row.hw_x_offset,
                 row.hw_y_offset} : cell.kind # "number"

C14_Bucketed ==
    /\ dm_csv.headers = "one row" => dm_pc # "raised"
    /\ dm_pc = "done" =>
        \A n \in DOMAIN dm_csv.rows :
            LET row == dm_csv.rows[n]
            IN  IF row = BlankRow
                THEN in_successes(n) + in_failed_extractions(n)
                        + in_failed_rewrites(n) = 0
                ELSE /\ in_successes(n) + in_failed_extractions(n)
                            + in_failed_rewrites(n) = 1
                     /\ C14_FieldIsInvalid(row) <=> in_failed_extractions(n) = 1

C14_WrittenOnlyOnSuccess ==
    dm_disk' # dm_disk =>
        /\ Len(dm_successes') = Len(dm_successes) + 1
        /\ dm_failed_extractions' = dm_failed_extractions
        /\ dm_failed_rewrites' = dm_failed_rewrites

\* C14: a row that fails field validation is a value of the result and raises
\* nothing: with the headers on one row the extraction does not raise, every
\* non-blank row below them ends in exactly one of the three buckets, the rows
\* that fail validation in failed_extractions, and a file is written only in
\* the turn that appends its row to successes.
C14_EachRowInOneBucket == []C14_Bucketed /\ [][C14_WrittenOnlyOnSuccess]_vars

\* the first row failed validation and the second was processed and written
C14_Witness ==
    /\ dm_pc = "done"
    /\ dm_failed_extractions = <<1>>
    /\ C14_FieldIsInvalid(dm_csv.rows[1])
    /\ dm_successes = << <<2, "lw_a">> >>
    /\ dm_disk # dm_disk0

\* ---------------------------------------------------------------------------
\* definition_groups/detect_sibling_definitions.py
\*
\* A string is a sequence of symbols: a symbol is one character ("_", a digit,
\* a blank, a line end) or a run of letters that no operation of the script
\* looks into.
\* ---------------------------------------------------------------------------

Digits == {"2", "6", "9"}

Whitespace == {" ", "\n"}

\* the symbols in the order of their first characters' code points
SymbolsInOrder ==
    <<"\n", " ", "2", "6", "9", "<no group>", "_", "adapter", "aluminumblock",
      "deep", "flat", "full", "ml", "nest", "opentrons", "pcr", "skirt",
      "tuberack", "well", "wellplate">>

code_point(symbol) ==
    CHOOSE i \in DOMAIN SymbolsInOrder : SymbolsInOrder[i] = symbol

\* a < b on strings
RECURSIVE less(_, _)
less(a, b) ==
    IF Len(b) = 0
    THEN FALSE
    ELSE IF Len(a) = 0
    THEN TRUE
    ELSE IF a[1] = b[1]
    THEN less(Tail(a), Tail(b))
    ELSE code_point(a[1]) < code_point(b[1])

\* sorted(strings), of a set of strings
RECURSIVE sorted(_)
sorted(strings) ==
    IF strings = {}
    THEN <<>>
    ELSE LET first == CHOOSE a \in strings : \A b \in strings : ~less(b, a)
         IN  <<first>> \o sorted(strings \ {first})

\* line.strip()
RECURSIVE strip(_)
strip(line) ==
    IF Len(line) = 0
    THEN line
    ELSE IF line[1] \in Whitespace
    THEN strip(Tail(line))
    ELSE IF line[Len(line)] \in Whitespace
    THEN strip(SubSeq(line, 1, Len(line) - 1))
    ELSE line

\* text.split("_")
RECURSIVE split(_)
split(text) ==
    LET underscores == {i \in DOMAIN text : text[i] = "_"}
    IN  IF underscores = {}
        THEN <<text>>
        ELSE LET k == CHOOSE i \in underscores : \A j \in underscores : i <= j
             IN  <<SubSeq(text, 1, k - 1)>>
                    \o split(SubSeq(text, k + 1, Len(text)))

\* "_".join(parts)
RECURSIVE join(_)
join(parts) ==
    IF Len(parts) = 0
    THEN <<>>
    ELSE IF Len(parts) = 1
    THEN parts[1]
    ELSE parts[1] \o <<"_">> \o join(Tail(parts))

\* part.isnumeric()
isnumeric(part) == Len(part) > 0 /\ \A i \in DOMAIN part : part[i] \in Digits

PARENT_SIGNIFIERS == {<<"aluminumblock">>, <<"tuberack">>, <<"adapter">>}

\* part in {"flat", "full", "skirt", "pcr"}
is_keyword(part) == part \in {<<"flat">>, <<"full">>, <<"skirt">>, <<"pcr">>}

\* the parts that get_group_id keeps before it looks for the parent
kept_parts(load_name) ==
    SelectSeq(split(load_name),
              LAMBDA part : ~(isnumeric(part) \/ is_keyword(part)))

\* get_group_id cutting at the last parent signifier instead of the first
get_group_id_from_last_signifier(load_name) ==
    LET parts == kept_parts(load_name)
        signifiers == {i \in DOMAIN parts : parts[i] \in PARENT_SIGNIFIERS}
    IN  IF signifiers = {}
        THEN join(parts)
        ELSE LET parent_signifier_index ==
                    CHOOSE i \in signifiers : \A j \in signifiers : j <= i
             IN  join(SubSeq(parts, parent_signifier_index + 1, Len(parts)))

get_group_id(load_name) ==
    LET parts == kept_parts(load_name)
        signifiers == {i \in DOMAIN parts : parts[i] \in PARENT_SIGNIFIERS}
    IN  IF signifiers = {}
        THEN join(parts)
        ELSE LET parent_signifier_index ==
                    CHOOSE i \in signifiers : \A j \in signifiers : i <= j
             IN  join(SubSeq(parts, parent_signifier_index + 1, Len(parts)))

\* load_names = [line.strip() for line in sys.stdin]
load_names_of(lines) == [i \in DOMAIN lines |-> strip(lines[i])]

\* groups after the loop: the group ids, and the members of each
group_ids(load_names) ==
    {get_group_id(load_names[i]) : i \in DOMAIN load_names}

group_members(load_names, group_name) ==
    {load_names[i] : i \in
        {j \in DOMAIN load_names : get_group_id(load_names[j]) = group_name}}

NoGroup == <<"<no group>">>

\* the first dict of to_print: the groups of several members, sorted by id
RECURSIVE sibling_groups(_, _)
sibling_groups(load_names, names_in_order) ==
    IF Len(names_in_order) = 0
    THEN EmptyObject
    ELSE LET group_name == names_in_order[1]
             members    == group_members(load_names, group_name)
             rest       == sibling_groups(load_names, Tail(names_in_order))
         IN  IF Cardinality(members) > 1
             THEN <<<<group_name, sorted(members)>>>> \o rest
             ELSE rest

\* to_print with the groups of one member among the first dict as well
RECURSIVE every_group(_, _)
every_group(load_names, names_in_order) ==
    IF Len(names_in_order) = 0
    THEN EmptyObject
    ELSE <<<<names_in_order[1],
             sorted(group_members(load_names, names_in_order[1]))>>>>
            \o every_group(load_names, Tail(names_in_order))

to_print_of_every_group(load_names) ==
    LET ids == group_ids(load_names)
        alone == UNION {group_members(load_names, id) : id \in
                    {id \in ids :
                        Cardinality(group_members(load_names, id)) = 1}}
    IN  Put(every_group(load_names, sorted(ids)), NoGroup, sorted(alone))

\* to_print with nothing under "<no group>"
to_print_of_siblings_only(load_names) ==
    Put(sibling_groups(load_names, sorted(group_ids(load_names))), NoGroup, <<>>)

\* to_print: the second dict gives "<no group>", over a group of that id
to_print_of(load_names) ==
    LET ids == group_ids(load_names)
        alone == UNION {group_members(load_names, id) : id \in
                    {id \in ids :
                        Cardinality(group_members(load_names, id)) = 1}}
    IN  Put(sibling_groups(load_names, sorted(ids)), NoGroup, sorted(alone))

\* the script, from reading stdin to printing the groups
DetectSiblings ==
    /\ gr_to_print = <<>>
    /\ gr_to_print' = to_print_of(load_names_of(gr_lines))
    /\ UNCHANGED gr_lines
    /\ UNCHANGED <<g_vars, fr_vars, lv_vars, mg_vars, dm_vars, vf_vars>>

MaxParts == 3

\* the parts that the load names of the first line are made of
Parts == {<<"adapter">>, <<"tuberack">>, <<"9", "6">>, <<"flat">>, <<"nest">>}

ExampleLoadName ==
    join(<< <<"opentrons">>, <<"9", "6">>, <<"deep">>, <<"well">>,
            <<"adapter">>, <<"nest">>, <<"wellplate">>, <<"2", "ml">>,
            <<"deep">> >>)

FirstLoadNames ==
    {join(parts) : parts \in UNION {[1..n -> Parts] : n \in 0..MaxParts}}
        \cup {ExampleLoadName,
              join(<< <<"opentrons">>, <<"9", "6">>, <<"pcr">>, <<"adapter">>,
                      <<"nest">>, <<"wellplate">>, <<"pcr">>, <<"full">>,
                      <<"skirt">> >>)}

\* the load names of the other lines
OtherLoadNames ==
    {join(<< <<"nest">> >>),
     join(<< <<"opentrons">>, <<"aluminumblock">>, <<"nest">> >>),
     join(<< <<"nest">>, <<"wellplate">>, <<"2", "ml">>, <<"deep">> >>)}

MaxOtherLines == 2

InitGroups ==
    /\ \E first \in FirstLoadNames :
       \E n \in 0..MaxOtherLines :
       \E others \in [1..n -> OtherLoadNames] :
       \E indent \in {<<>>, <<" ">>} :
            gr_lines = <<indent \o first \o <<"\n">>>>
                        \o [i \in 1..n |-> others[i] \o <<"\n">>]
    /\ gr_to_print = <<>>
    /\ g_idle /\ fr_idle /\ lv_idle /\ mg_idle /\ dm_idle /\ vf_idle

NextGroups == DetectSiblings

SpecGroups == InitGroups /\ [][NextGroups]_vars

\* the load names read from stdin
load_names == load_names_of(gr_lines)

printed == gr_to_print # <<>>

elements(list) == {list[i] : i \in DOMAIN list}

has_parent(load_name) ==
    \E i \in DOMAIN split(load_name) : split(load_name)[i] \in PARENT_SIGNIFIERS

\* the parts right of the first parent signifier that are neither numbers nor
\* keywords, joined
C15_ChildParts(load_name) ==
    LET parts == split(load_name)
        first == CHOOSE i \in DOMAIN parts :
                    /\ parts[i] \in PARENT_SIGNIFIERS
                    /\ \A j \in 1..(i - 1) : parts[j] \notin PARENT_SIGNIFIERS
        right == [i \in 1..(Len(parts) - first) |-> parts[first + i]]
    IN  join(SelectSeq(right,
                LAMBDA part :
                    /\ ~(Len(part) > 0 /\ \A i \in DOMAIN part : part[i] \in Digits)
                    /\ part \notin {<<"flat">>, <<"full">>, <<"skirt">>, <<"pcr">>}))

\* C15: the group id of a load name with a parent signifier is made of the
\* parts to the right of the first signifier, in their order, without the
\* numbers and the keywords flat, full, skirt and pcr, joined by "_"; the
\* report files the name under that id or under "<no group>".
C15_GroupIdIsChild ==
    /\ get_group_id(ExampleLoadName)
        = <<"nest", "_", "wellplate", "_", "2", "ml", "_", "deep">>
    /\ \A i \in DOMAIN load_names :
        LET load_name == load_names[i]
        IN  has_parent(load_name) =>
                /\ get_group_id(load_name) = C15_ChildParts(load_name)
                /\ printed =>
                    \E k \in DOMAIN gr_to_print :
                        /\ gr_to_print[k][1] \in {C15_ChildParts(load_name), NoGroup}
                        /\ load_name \in elements(gr_to_print[k][2])

\* the parent/child example is grouped with the plate it holds
C15_Witness ==
    /\ printed
    /\ load_names[1] = ExampleLoadName
    /\ Has(gr_to_print, C15_ChildParts(ExampleLoadName))
    /\ elements(Get(gr_to_print, C15_ChildParts(ExampleLoadName)))
        = {ExampleLoadName, C15_ChildParts(ExampleLoadName)}

\* no other load name of the input has the group id of this one
C16_Alone(load_name) ==
    /\ ~has_parent(load_name)
    /\ \A j \in DOMAIN load_names :
        load_names[j] # load_name
            => get_group_id(load_names[j]) # get_group_id(load_name)

\* C16: a load name without a parent signifier whose group id no other load
\* name of the input has is listed under "<no group>" and under no other key.
C16_AloneIsInNoGroup ==
    printed =>
        \A i \in DOMAIN load_names :
            C16_Alone(load_names[i]) =>
                /\ Has(gr_to_print, NoGroup)
                /\ \A k \in DOMAIN gr_to_print :
                    load_names[i] \in elements(gr_to_print[k][2])
                        <=> gr_to_print[k][1] = NoGroup

\* a name alone in its group, printed after a group of two siblings
C16_Witness ==
    /\ printed
    /\ Len(gr_to_print) = 2
    /\ Len(load_names) = 3
    /\ C16_Alone(load_names[1])
    /\ load_names[1] \in elements(Get(gr_to_print, NoGroup))
    /\ Len(gr_to_print[1][2]) = 2

\* ---------------------------------------------------------------------------
\* definition_groups/verify_same_geometry.py
\* ---------------------------------------------------------------------------

\* what get_definition_path returns: a path, or None
NoPath == [found |-> FALSE, load_name |-> "", match |-> 0]

DefinitionPath(load_name, match) ==
    [found |-> TRUE, load_name |-> load_name, match |-> match]

\* get_definition_path: more than one match raises ValueError
get_definition_path(root, load_name) ==
    LET matches == root[load_name]
    IN  IF Len(matches) > 1
        THEN [raised |-> TRUE, path |-> NoPath]
        ELSE [raised |-> FALSE,
              path |-> IF Len(matches) = 1
                       THEN DefinitionPath(load_name, 1)
                       ELSE NoPath]

\* geometries_equal with the dicts compared whole when either has not one key
geometries_equal_of_any_length(geometry_a, geometry_b) ==
    IF Len(geometry_a) = 1 /\ Len(geometry_b) = 1
    THEN geometry_a[1][2] = geometry_b[1][2]
    ELSE geometry_a = geometry_b

\* geometries_equal with the key compared as well as the value
geometries_equal_with_keys(geometry_a, geometry_b) ==
    IF Len(geometry_a) = 1 /\ Len(geometry_b) = 1
    THEN geometry_a[1] = geometry_b[1]
    ELSE FALSE

geometries_equal(geometry_a, geometry_b) ==
    IF Len(geometry_a) = 1 /\ Len(geometry_b) = 1
    THEN geometry_a[1][2] = geometry_b[1][2]
    ELSE FALSE

\* the members of the group of this turn and their paths
group_members_now == vf_groups[vf_i][2]

definition_paths ==
    [k \in DOMAIN group_members_now |->
        get_definition_path(vf_definitions, group_members_now[k])]

file_at(path) == vf_definitions[path.load_name][path.match]

\* the members whose path is not None, in order
located ==
    SelectSeq([k \in DOMAIN group_members_now |-> k],
              LAMBDA k : definition_paths[k].path.found)

\* json.loads(path.read_bytes()).get("innerLabwareGeometry", {})
geometries ==
    [n \in DOMAIN located |->
        GetOr(file_at(definition_paths[located[n]].path).definition,
              "innerLabwareGeometry", EmptyObject)]

\* get_definition_path or json.loads raises in this turn
verify_raises ==
    \/ \E k \in DOMAIN group_members_now : definition_paths[k].raised
    \/ \E n \in DOMAIN located :
            ~file_at(definition_paths[located[n]].path).valid

all_geometries_equal ==
    \A n \in DOMAIN geometries : geometries_equal(geometries[n], geometries[1])

InGroupLoop == vf_pc = "loop" /\ vf_i <= Len(vf_groups)

\* one turn of the loop over the groups, to the printing of the members
PrintGroup ==
    /\ InGroupLoop
    /\ ~verify_raises
    /\ vf_printed' =
        Append(vf_printed,
               [mark       |-> IF all_geometries_equal THEN "pass" ELSE "fail",
                group_name |-> vf_groups[vf_i][1],
                members    |-> [k \in DOMAIN group_members_now |->
                                <<group_members_now[k], definition_paths[k].path>>]])
    /\ vf_i' = vf_i + 1
    /\ UNCHANGED <<vf_groups, vf_definitions, vf_pc>>
    /\ UNCHANGED <<g_vars, fr_vars, lv_vars, mg_vars, dm_vars, gr_vars>>

\* the turn raises and the script ends with a traceback
VerifyRaise ==
    /\ InGroupLoop
    /\ verify_raises
    /\ vf_pc' = "raised"
    /\ UNCHANGED <<vf_groups, vf_definitions, vf_i, vf_printed>>
    /\ UNCHANGED <<g_vars, fr_vars, lv_vars, mg_vars, dm_vars, gr_vars>>

VerifyDone ==
    /\ vf_pc = "loop"
    /\ vf_i > Len(vf_groups)
    /\ vf_pc' = "done"
    /\ UNCHANGED <<vf_groups, vf_definitions, vf_i, vf_printed>>
    /\ UNCHANGED <<g_vars, fr_vars, lv_vars, mg_vars, dm_vars, gr_vars>>

MaxGroups == 2

\* the values under the keys of innerLabwareGeometry
Sections == {<<1>>, <<1, 2>>}

GeometryIds == {"conicalWell", "cuboidalWell"}

InnerLabwareGeometries ==
    {EmptyObject}
        \cup {<<<<id, sections>>>> : id \in GeometryIds, sections \in Sections}
        \cup {<< <<"conicalWell", a>>, <<"cuboidalWell", b>> >> :
                a \in Sections, b \in Sections}

\* the files of a definition directory
VerifiedFiles ==
    {JsonFile(<< <<"innerLabwareGeometry", geometry>> >>) :
        geometry \in InnerLabwareGeometries}
        \cup {JsonFile(EmptyObject), InvalidJson}

\* the member lists of the groups file
MemberLists ==
    {<<>>, <<"lw_a">>, <<"lw_a", "lw_b">>, <<"lw_b", "lw_a">>,
     <<"lw_a", "lw_c">>, <<"lw_b", "lw_b">>}

InitVerify ==
    /\ \E n \in 0..MaxGroups :
       \E lists \in [1..n -> MemberLists] :
            vf_groups = [k \in 1..n |-> <<k, lists[k]>>]
    /\ \E file_a \in VerifiedFiles :
       \E files_b \in {<<file>> : file \in VerifiedFiles}
                        \cup {<<JsonFile(EmptyObject), JsonFile(EmptyObject)>>} :
            vf_definitions = [load_name \in {"lw_a", "lw_b", "lw_c"} |->
                                IF load_name = "lw_a" THEN <<file_a>>
                                ELSE IF load_name = "lw_b" THEN files_b
                                ELSE <<>>]
    /\ vf_i = 1
    /\ vf_pc = "loop"
    /\ vf_printed = <<>>
    /\ g_idle /\ fr_idle /\ lv_idle /\ mg_idle /\ dm_idle /\ gr_idle

NextVerify == PrintGroup \/ VerifyRaise \/ VerifyDone

SpecVerify == InitVerify /\ [][NextVerify]_vars

\* the geometries that the turn of a printed group compared, in order
geometries_of(group) ==
    LET found == SelectSeq(group.members, LAMBDA member : member[2].found)
    IN  [n \in DOMAIN found |->
            GetOr(file_at(found[n][2]).definition, "innerLabwareGeometry",
                  EmptyObject)]

same_geometry(group) ==
    /\ Len(geometries_of(group)) > 0
    /\ \A n \in DOMAIN geometries_of(group) :
            geometries_of(group)[n] = geometries_of(group)[1]

\* C17 as stated: geometries_equal(g, g) holds for every geometry read from a
\* definition, the empty dict and the dicts of several keys included, and a
\* group whose located members have the same geometry is marked as passing.
C17_Reflexive ==
    \A k \in DOMAIN vf_printed :
        /\ \A n \in DOMAIN geometries_of(vf_printed[k]) :
                geometries_equal(geometries_of(vf_printed[k])[n],
                                 geometries_of(vf_printed[k])[n])
        /\ same_geometry(vf_printed[k]) => vf_printed[k].mark = "pass"

\* C17, amended: geometries_equal(g, g) holds exactly for the geometries of
\* one top-level key; a group whose located members have the same geometry of
\* one key is marked as passing, and a group with a located member whose
\* geometry is empty or has several keys is marked as failing, the same
\* geometry in every member or not.
C17_ReflexiveOnOneKey ==
    \A k \in DOMAIN vf_printed :
        LET compared == geometries_of(vf_printed[k])
        IN  /\ \A n \in DOMAIN compared :
                    geometries_equal(compared[n], compared[n])
                        <=> Len(compared[n]) = 1
            /\ (same_geometry(vf_printed[k]) /\ Len(compared[1]) = 1)
                    => vf_printed[k].mark = "pass"
            /\ (\E n \in DOMAIN compared : Len(compared[n]) # 1)
                    => vf_printed[k].mark = "fail"

\* two located members with the same geometry of one key, marked as passing
C17_Witness ==
    /\ vf_pc = "done"
    /\ \E k \in DOMAIN vf_printed :
        /\ Len(geometries_of(vf_printed[k])) = 2
        /\ same_geometry(vf_printed[k])
        /\ Len(geometries_of(vf_printed[k])[1]) = 1
        /\ vf_printed[k].mark = "pass"

\* the group compared geometries of one key each
one_key_each(group) ==
    \A n \in DOMAIN geometries_of(group) : Len(geometries_of(group)[n]) = 1

\* C18 as stated: two geometries of one top-level key each whose keys differ
\* are reported as not equal, whatever is under the keys.
C18_DifferentKeysDiffer ==
    \A k \in DOMAIN vf_printed :
        LET compared == geometries_of(vf_printed[k])
        IN  (/\ one_key_each(vf_printed[k])
             /\ \E n \in DOMAIN compared : compared[n][1][1] # compared[1][1][1])
                => /\ vf_printed[k].mark = "fail"
                   /\ \E n \in DOMAIN compared :
                        ~geometries_equal(compared[n], compared[1])

\* C18, amended: two geometries of one top-level key each are reported as
\* equal exactly when what is under the keys is equal; the keys are not
\* compared, and different keys over equal values are reported as equal.
C18_OnlyValuesCompared ==
    \A k \in DOMAIN vf_printed :
        LET compared == geometries_of(vf_printed[k])
        IN  one_key_each(vf_printed[k]) =>
                /\ \A n \in DOMAIN compared :
                        geometries_equal(compared[n], compared[1])
                            <=> compared[n][1][2] = compared[1][1][2]
                /\ vf_printed[k].mark = "pass"
                        <=> \A n \in DOMAIN compared :
                                compared[n][1][2] = compared[1][1][2]

\* different keys over the same sections, marked as passing
C18_Witness ==
    /\ vf_pc = "done"
    /\ \E k \in DOMAIN vf_printed :
        LET compared == geometries_of(vf_printed[k])
        IN  /\ Len(compared) = 2
            /\ one_key_each(vf_printed[k])
            /\ compared[1][1][1] # compared[2][1][1]
            /\ compared[1][1][2] = compared[2][1][2]
            /\ vf_printed[k].mark = "pass"

(***************************************************************************)
(*             latest_versions: the loops of the four modes                *)
(***************************************************************************)

\* the load names of all_numbered_versions[1..n], each once, in the order of
\* their first file: the order of the keys of highest_numbered_versions
RECURSIVE names_in_order(_, _)
names_in_order(all_numbered_versions, n) ==
    IF n = 0
    THEN <<>>
    ELSE LET before == names_in_order(all_numbered_versions, n - 1)
             name == all_numbered_versions[n][1]
         IN  IF name \in Range(before) THEN before ELSE Append(before, name)

\* list(highest_numbered_versions.values())
highest_values ==
    LET names == names_in_order(lv_index.all_numbered_versions,
                                Len(lv_index.all_numbered_versions))
    IN  [k \in DOMAIN names |-> lv_index.highest_numbered_versions[names[k]]]

\* for path, _ in highest_numbered_versions.values(): print(path)
PrintLatest ==
    /\ lv_pc = "print"
    /\ lv_i <= Len(highest_values)
    /\ lv_calls' = Append(lv_calls, Call("print", highest_values[lv_i].path, NoTarget))
    /\ lv_i' = lv_i + 1
    /\ UNCHANGED <<lv_disk, lv_disk0, lv_args, lv_pc, lv_index, lv_draft_i, lv_mode>>
    /\ UNCHANGED <<g_vars, fr_vars, mg_vars, dm_vars, gr_vars, vf_vars>>

\* path.with_name("draft.json")
new_path(path) == Path(path.dir, "draft", 0)

\* the print and the shutil.copy of one turn of --draft-from-latest
draft_calls(path) ==
    <<Call("print", path, new_path(path)), Call("copy", path, new_path(path))>>

\* shutil.copy(path, new_path)
DraftFromLatest ==
    /\ lv_pc = "draft"
    /\ lv_i <= Len(highest_values)
    /\ LET path == highest_values[lv_i].path
       IN  /\ lv_disk[path] # NoFile
           /\ lv_disk' = [lv_disk EXCEPT ![new_path(path)] = lv_disk[path]]
           /\ lv_calls' = lv_calls \o draft_calls(path)
    /\ lv_i' = lv_i + 1
    /\ UNCHANGED <<lv_disk0, lv_args, lv_pc, lv_index, lv_draft_i, lv_mode>>
    /\ UNCHANGED <<g_vars, fr_vars, mg_vars, dm_vars, gr_vars, vf_vars>>

\* shutil.copy of a file that is not there raises FileNotFoundError
DraftRaise ==
    /\ lv_pc = "draft"
    /\ lv_i <= Len(highest_values)
    /\ lv_disk[highest_values[lv_i].path] = NoFile
    /\ lv_calls' = lv_calls \o draft_calls(highest_values[lv_i].path)
    /\ lv_pc' = "raised"
    /\ UNCHANGED <<lv_disk, lv_disk0, lv_args, lv_index, lv_draft_i, lv_mode, lv_i>>
    /\ UNCHANGED <<g_vars, fr_vars, mg_vars, dm_vars, gr_vars, vf_vars>>

InVersionsLoop ==
    /\ lv_pc = "versions"
    /\ lv_i <= Len(lv_index.all_numbered_versions)

versioned_path == lv_index.all_numbered_versions[lv_i][2]

filename_version == lv_index.all_numbered_versions[lv_i][3]

\* the assignment left out: the contents are written as they were read
with_version_kept(json_contents, version) == json_contents

\* json_contents["version"] = version
with_version(json_contents, version) == Content(version, json_contents.body)

\* json_contents["version"] = version; path.write_text(...)
VersionsRewrite ==
    /\ InVersionsLoop
    /\ lv_disk[versioned_path] # NoFile
    /\ lv_disk[versioned_path].version # filename_version
    /\ lv_disk' = [lv_disk EXCEPT ![versioned_path] =
                        with_version(lv_disk[versioned_path], filename_version)]
    /\ lv_calls' = lv_calls \o <<Call("read", versioned_path, NoTarget),
                                 Call("write", versioned_path, NoTarget)>>
    /\ lv_i' = lv_i + 1
    /\ UNCHANGED <<lv_disk0, lv_args, lv_pc, lv_index, lv_draft_i, lv_mode>>
    /\ UNCHANGED <<g_vars, fr_vars, mg_vars, dm_vars, gr_vars, vf_vars>>

\* the version in the file is the one of the file name already
VersionsKeep ==
    /\ InVersionsLoop
    /\ lv_disk[versioned_path] # NoFile
    /\ lv_disk[versioned_path].version = filename_version
    /\ lv_calls' = Append(lv_calls, Call("read", versioned_path, NoTarget))
    /\ lv_i' = lv_i + 1
    /\ UNCHANGED <<lv_disk, lv_disk0, lv_args, lv_pc, lv_index, lv_draft_i, lv_mode>>
    /\ UNCHANGED <<g_vars, fr_vars, mg_vars, dm_vars, gr_vars, vf_vars>>

\* path.read_bytes() of a file that is not there raises FileNotFoundError
VersionsRaise ==
    /\ InVersionsLoop
    /\ lv_disk[versioned_path] = NoFile
    /\ lv_calls' = Append(lv_calls, Call("read", versioned_path, NoTarget))
    /\ lv_pc' = "raised"
    /\ UNCHANGED <<lv_disk, lv_disk0, lv_args, lv_index, lv_draft_i, lv_mode, lv_i>>
    /\ UNCHANGED <<g_vars, fr_vars, mg_vars, dm_vars, gr_vars, vf_vars>>

\* the loop of the mode is over and main returns
LoopDone ==
    /\ lv_pc \in {"print", "draft", "versions"}
    /\ lv_i > (IF lv_pc = "versions"
               THEN Len(lv_index.all_numbered_versions)
               ELSE Len(highest_values))
    /\ lv_pc' = "done"
    /\ UNCHANGED <<lv_disk, lv_disk0, lv_args, lv_index, lv_draft_i, lv_mode,
                   lv_i, lv_calls>>
    /\ UNCHANGED <<g_vars, fr_vars, mg_vars, dm_vars, gr_vars, vf_vars>>

Modes == {"print", "draft", "commit", "versions"}

\* the path arguments of a run
GivenPaths ==
    {RootDir, TextPath, Path("defs/a", "numbered", 1),
     Path("defs/a", "numbered", 2), Path("defs/a", "draft", 0)}

\* the disks of SpecVersions: defs/a/1.txt and the *.json file of another
\* stem are there, a numbered file has "version": 1 inside
VersionDisks ==
    {d \in [AllPaths -> Contents \cup {NoFile}] :
        /\ \A p \in AllPaths \ (Range(InitialPaths) \cup {TextPath}) : d[p] = NoFile
        /\ \A p \in AllPaths :
            /\ p.kind \in {"other", "suffix"} => d[p] = Content(1, "A")
            /\ p.kind = "numbered" => d[p] \in {Content(1, "A"), NoFile}
            /\ (p.kind = "draft" /\ p.dir = "defs/b")
                    => d[p] \in {Content(1, "B"), NoFile}}

InitVersions ==
    /\ lv_disk0 \in VersionDisks
    /\ lv_disk = lv_disk0
    /\ \E n \in 0..MaxArgs : lv_args \in [1..n -> GivenPaths]
    /\ lv_mode \in Modes
    /\ lv_pc = "start"
    /\ lv_index = <<>>
    /\ lv_draft_i = 1
    /\ lv_i = 1
    /\ lv_calls = <<>>
    /\ g_idle /\ fr_idle /\ mg_idle /\ dm_idle /\ gr_idle /\ vf_idle

NextVersions ==
    \/ Classify
    \/ PrintLatest
    \/ DraftFromLatest \/ DraftRaise
    \/ CommitRename \/ CommitDelete \/ CommitRaise \/ CommitDone
    \/ VersionsRewrite \/ VersionsKeep \/ VersionsRaise
    \/ LoopDone

SpecVersions == InitVersions /\ [][NextVersions]_vars

\* the paths that the run resolved its arguments to
resolved == resolve_paths(lv_args, lv_disk0)

\* the suffix is not .json, or the stem is neither an integer nor "draft"
unparsable(path) == path.kind \in {"other", "suffix"}

\* C19: a resolved path that does not parse into (load name, version) gets a
\* warning and is skipped. It is in none of the three collections; no mode
\* prints, reads, copies, replaces, unlinks or writes it, and its file stays
\* as it was; the paths that do parse are collected as if it had not been
\* among the paths.
C19_UnparsableIsSkipped ==
    lv_pc # "start" =>
        LET parsable == classify(SelectSeq(resolved, LAMBDA p : ~unparsable(p)))
        IN  /\ lv_index.warnings = SelectSeq(resolved, unparsable)
            /\ lv_index.drafts = parsable.drafts
            /\ lv_index.all_numbered_versions = parsable.all_numbered_versions
            /\ lv_index.highest_numbered_versions
                    = parsable.highest_numbered_versions
            /\ \A k \in DOMAIN lv_index.drafts :
                    ~unparsable(lv_index.drafts[k][2])
            /\ \A k \in DOMAIN lv_index.all_numbered_versions :
                    ~unparsable(lv_index.all_numbered_versions[k][2])
            /\ \A k \in DOMAIN lv_calls :
                    ~unparsable(lv_calls[k].path) /\ ~unparsable(lv_calls[k].to)
            /\ \A p \in AllPaths : unparsable(p) => lv_disk[p] = lv_disk0[p]

\* a file given before the directory does not parse, nor does one in the
\* directory, and a file after them has been rewritten
C19_Witness ==
    /\ lv_pc = "done"
    /\ lv_mode = "versions"
    /\ lv_args = <<TextPath, RootDir>>
    /\ lv_index.warnings = <<TextPath, InitialPaths[1]>>
    /\ \E k \in DOMAIN lv_calls : lv_calls[k].op = "write"
    /\ lv_disk # lv_disk0

\* what --print-latest printed
printed_paths ==
    LET prints == SelectSeq(lv_calls, LAMBDA call : call.op = "print")
    IN  [k \in DOMAIN prints |-> prints[k].path]

\* the numbered files of a load name among the resolved paths
numbered_given(name) ==
    {resolved[k] : k \in
        {j \in DOMAIN resolved :
            resolved[j].kind = "numbered" /\ ParentName(resolved[j].dir) = name}}

\* C20: --print-latest prints, for each load name with a numbered file among
\* the resolved paths, exactly one path, that of a file whose version is the
\* highest of the load name's numbered files; it prints no draft and no file
\* of a lower version, and changes no file.
C20_PrintsHighestOnly ==
    lv_mode = "print" =>
        /\ lv_disk = lv_disk0
        /\ \A k \in DOMAIN lv_calls : lv_calls[k].op = "print"
        /\ \A k \in DOMAIN printed_paths : printed_paths[k].kind = "numbered"
        /\ lv_pc = "done" =>
            \A name \in {"a", "b"} :
                LET of_name == {k \in DOMAIN printed_paths :
                                    ParentName(printed_paths[k].dir) = name}
                IN  IF numbered_given(name) = {}
                    THEN of_name = {}
                    ELSE /\ Cardinality(of_name) = 1
                         /\ \A k \in of_name :
                            /\ printed_paths[k] \in numbered_given(name)
                            /\ \A p \in numbered_given(name) :
                                    p.version <= printed_paths[k].version

\* the lower version came last and a draft was among the paths
C20_Witness ==
    /\ lv_pc = "done"
    /\ lv_mode = "print"
    /\ lv_args = <<Path("defs/a", "numbered", 2), RootDir>>
    /\ lv_disk0[Path("defs/a", "numbered", 1)] # NoFile
    /\ lv_disk0[Path("defs/a", "draft", 0)] # NoFile
    /\ printed_paths = <<Path("defs/a", "numbered", 2), Path("defs/b", "numbered", 1)>>

\* the numbered files among the resolved paths
numbered_resolved == {resolved[k] : k \in
                        {j \in DOMAIN resolved : resolved[j].kind = "numbered"}}

\* the write_text calls made on a path
writes_of(path) ==
    {k \in DOMAIN lv_calls : lv_calls[k].op = "write" /\ lv_calls[k].path = path}

\* C21: --versions-from-filenames leaves every resolved numbered file <n>.json
\* with n in its version field when the run returns; it does not write a file
\* whose version field was n already, it changes nothing but the version field
\* of the files it writes, and it changes no draft file and no other file.
C21_VersionsFollowFilenames ==
    lv_mode = "versions" =>
        /\ \A p \in AllPaths :
            IF p \in numbered_resolved /\ lv_disk0[p] # NoFile
            THEN /\ lv_disk[p] # NoFile
                 /\ lv_disk[p].body = lv_disk0[p].body
                 /\ lv_disk[p].version \in {lv_disk0[p].version, p.version}
                 /\ lv_disk0[p].version = p.version => writes_of(p) = {}
                 /\ Cardinality(writes_of(p)) <= 1
            ELSE lv_disk[p] = lv_disk0[p] /\ writes_of(p) = {}
        /\ lv_pc = "done" =>
            \A p \in numbered_resolved :
                lv_disk[p] # NoFile /\ lv_disk[p].version = p.version

\* the directory held 1.json with version 1, which was left alone, 2.json with
\* version 1, which was rewritten, and a draft
C21_Witness ==
    /\ lv_mode = "versions"
    /\ lv_pc = "done"
    /\ lv_args = <<RootDir>>
    /\ lv_disk0[Path("defs/a", "draft", 0)] # NoFile
    /\ lv_disk0[Path("defs/a", "numbered", 1)] = Content(1, "A")
    /\ lv_disk0[Path("defs/a", "numbered", 2)] = Content(1, "A")
    /\ lv_disk[Path("defs/a", "numbered", 2)] = Content(2, "A")
    /\ writes_of(Path("defs/a", "numbered", 1)) = {}
    /\ Cardinality(writes_of(Path("defs/a", "numbered", 2))) = 1

\* in every column the first well is as far from the back wall as the last
\* well is from the front wall
C22_Centered(definition) ==
    \A c \in DOMAIN Get(definition, "ordering") :
        LET column == Get(definition, "ordering")[c]
            back   == Get(Get(definition, "wells"), column[1]).y
            front  == Get(Get(definition, "wells"), column[Len(column)]).y
        IN  Get(Get(definition, "dimensions"), "yDimension") - back = front

\* the files migrate_labware_defs has handled whose JSON it could read
C22_Read == IF mg_script = "migrate_labware_defs"
            THEN {i \in handled : mg_start[i].valid}
            ELSE {}

\* C22: migrate_labware_defs re-bases the wells all or none. With every column
\* centered, move_wells_to_quadrant_4 gives every well y - yDimension and adds
\* no warning; otherwise it changes no well and adds exactly one warning. A
\* file of uncentered wells is written, if at all, with its wells as they
\* were and is printed as a problem.
C22_RebaseAllOrNone ==
    \A i \in C22_Read :
        LET before == mg_start[i].definition
            after  == mg_disk[i].definition
            moved  == move_wells_to_quadrant_4(before)
        IN  /\ ~moved.raised
            /\ IF C22_Centered(before)
               THEN /\ moved.warnings = 0
                    /\ WellsRebased(before, moved.definition)
                    /\ OthersKept(before, moved.definition, {"wells"})
                    /\ written_by(mg_log[i]) => WellsRebased(before, after)
               ELSE /\ moved.warnings = 1
                    /\ moved.definition = before
                    /\ Get(after, "wells") = Get(before, "wells")
                    /\ mg_log[i] \in {"problems", "internal error"}
            /\ ~written_by(mg_log[i]) => after = before

\* a file whose second column is not centered was written with its zero
\* cornerOffsetFromSlot removed and its wells where they were
C22_Witness ==
    /\ mg_script = "migrate_labware_defs"
    /\ mg_pc = "done"
    /\ \E i \in C22_Read :
        /\ Len(Get(mg_start[i].definition, "ordering")) = 2
        /\ ~C22_Centered(mg_start[i].definition)
        /\ mg_log[i] = "problems"
        /\ mg_disk[i] # mg_start[i]
        /\ Get(mg_disk[i].definition, "wells") = Get(mg_start[i].definition, "wells")

\* C23: --commit-draft, whatever paths it is given, leaves every numbered
\* file that was on disk when it started on disk and with its content.
C23_NumberedFilesKept ==
    lv_mode = "commit" =>
        \A p \in AllPaths :
            (p.kind = "numbered" /\ lv_disk0[p] # NoFile) => lv_disk[p] = lv_disk0[p]

(***************************************************************************)
(*   latest_versions --draft-from-latest, then --commit-draft, with the    *)
(*   same path arguments and no edit of a file in between                  *)
(***************************************************************************)

\* the second run starts where the first one ended or raised; lv_disk0 stays
\* the disk before the first run and lv_calls goes on after the first run's
RunCommit ==
    /\ lv_mode = "draft"
    /\ lv_pc \in {"done", "raised"}
    /\ lv_mode' = "commit"
    /\ lv_pc' = "start"
    /\ lv_index' = <<>>
    /\ lv_i' = 1
    /\ lv_draft_i' = 1
    /\ UNCHANGED <<lv_disk, lv_disk0, lv_args, lv_calls>>
    /\ UNCHANGED <<g_vars, fr_vars, mg_vars, dm_vars, gr_vars, vf_vars>>

\* the disks of SpecRoundTrip: any numbered file, a draft or none
RoundTripDisks ==
    {d \in [AllPaths -> Contents \cup {NoFile}] :
        /\ \A p \in AllPaths \ (Range(InitialPaths) \cup {TextPath}) : d[p] = NoFile
        /\ \A p \in AllPaths :
            /\ p.kind \in {"other", "suffix"} => d[p] = Content(1, "A")
            /\ p.kind = "draft" => d[p] \in {Content(1, "B"), NoFile}}

InitRoundTrip ==
    /\ lv_disk0 \in RoundTripDisks
    /\ lv_disk = lv_disk0
    /\ \E n \in 1..MaxArgs :
            lv_args \in [1..n -> {RootDir, Path("defs/a", "numbered", 1)}]
    /\ lv_mode = "draft"
    /\ lv_pc = "start"
    /\ lv_index = <<>>
    /\ lv_draft_i = 1
    /\ lv_i = 1
    /\ lv_calls = <<>>
    /\ g_idle /\ fr_idle /\ mg_idle /\ dm_idle /\ gr_idle /\ vf_idle

NextRoundTrip ==
    \/ Classify
    \/ DraftFromLatest \/ DraftRaise \/ LoopDone
    \/ RunCommit
    \/ CommitRename \/ CommitDelete \/ CommitRaise \/ CommitDone

SpecRoundTrip == InitRoundTrip /\ [][NextRoundTrip]_vars

\* the runs were given the directory and it held no draft
C24_NoDraftAtFirst ==
    /\ lv_args = <<RootDir>>
    /\ \A p \in AllPaths : p.kind = "draft" => lv_disk0[p] = NoFile

calls_of(op) == SelectSeq(lv_calls, LAMBDA call : call.op = op)

\* C24: --draft-from-latest and then --commit-draft, both on a directory
\* without drafts and with no edit in between, return and leave every file of
\* the directory as it was: each draft made by the first run is deleted by the
\* second, which makes no new version.
C24_RoundTrip ==
    C24_NoDraftAtFirst =>
        /\ lv_pc # "raised"
        /\ calls_of("replace") = <<>>
        /\ (lv_mode = "commit" /\ lv_pc = "done") =>
            /\ lv_disk = lv_disk0
            /\ Len(calls_of("unlink")) = Len(calls_of("copy"))
            /\ \A k \in DOMAIN calls_of("copy") :
                    calls_of("unlink")[k].path = calls_of("copy")[k].to

\* both load names got a draft of a version that differs from the one before
\* it, and both drafts are gone
C24_Witness ==
    /\ C24_NoDraftAtFirst
    /\ lv_mode = "commit"
    /\ lv_pc = "done"
    /\ lv_disk0[Path("defs/a", "numbered", 1)] = Content(1, "A")
    /\ lv_disk0[Path("defs/a", "numbered", 2)] = Content(1, "B")
    /\ Len(calls_of("copy")) = 2
    /\ Len(calls_of("unlink")) = 2
    /\ calls_of("copy")[1].path = Path("defs/a", "numbered", 2)
    /\ lv_disk = lv_disk0

\* where the report lists a load name: the key and the position in its list
places_of(load_name) ==
    {<<k, n>> \in (DOMAIN gr_to_print) \X (1..Len(load_names)) :
        /\ n <= Len(gr_to_print[k][2])
        /\ gr_to_print[k][2][n] = load_name}

\* C25: the report is a partition of the load names read. Each of them is
\* listed exactly once, under a group or under "<no group>", and nothing else
\* is listed; a group other than "<no group>" has two members or more, and
\* its name is the group id of each of its members.
C25_ReportIsPartition ==
    printed =>
        /\ \A i \in DOMAIN load_names : Cardinality(places_of(load_names[i])) = 1
        /\ \A k \in DOMAIN gr_to_print :
            /\ elements(gr_to_print[k][2]) \subseteq elements(load_names)
            /\ gr_to_print[k][1] # NoGroup =>
                /\ Len(gr_to_print[k][2]) >= 2
                /\ \A n \in DOMAIN gr_to_print[k][2] :
                        get_group_id(gr_to_print[k][2][n]) = gr_to_print[k][1]
        /\ Cardinality({k \in DOMAIN gr_to_print : gr_to_print[k][1] = NoGroup}) = 1

\* a name with a parent is grouped with the plain name of its child, and the
\* third name is left without a group
C25_Witness ==
    /\ printed
    /\ Len(load_names) = 3
    /\ Len(gr_to_print) = 2
    /\ has_parent(load_names[1])
    /\ Len(gr_to_print[1][2]) = 2
    /\ load_names[1] \in elements(gr_to_print[1][2])
    /\ gr_to_print[2][1] = NoGroup
    /\ Len(gr_to_print[2][2]) = 1

--------------------------------------------------------------------------
\* The sections __main__ writes for a stack to_geometry_def took whole: the
\* segments, top one first.
written_sections == new_sections(g_segments)

\* C26: the written segments stack without gaps where no hemisphere is
\* involved: of two adjacent segments whose lower one is not spherical, the
\* lower one's topHeight is the upper one's bottomHeight, and a non-spherical
\* segment's bottomHeight and topHeight are the distances from bottom of its
\* lower and of its upper cross-section record.
C26_StackWithoutGaps ==
    (g_called /\ ~g_result[1].raised) =>
        LET n == Len(written_sections)
        IN  /\ n = Len(g_sections) - 1
            /\ \A j \in 1..(n - 1) :
                LET upper == written_sections[j]
                    lower == written_sections[j + 1]
                IN  lower.shape # "spherical"
                        => lower.topHeight = upper.bottomHeight
            /\ \A j \in 1..n :
                LET seg == written_sections[j]
                    below == g_sections[n + 1 - j]
                    above == g_sections[n + 2 - j]
                IN  seg.shape # "spherical"
                        => /\ seg.bottomHeight = below.dist_from_bottom
                           /\ seg.topHeight = above.dist_from_bottom

\* Three CIRCLE records, the middle one 5 mm above the lowest, have given two
\* conical segments that meet at 5 mm.
C26_Witness ==
    /\ g_called /\ Len(g_sections) = 3
    /\ \A i \in 1..3 : g_sections[i].type = "CIRCLE"
    /\ g_sections[1].dist_from_bottom = Mm(0)
    /\ g_sections[2].dist_from_bottom = Mm(5)
    /\ ~g_result[1].raised
    /\ Len(written_sections) = 2
    /\ written_sections[1].shape = "conical" /\ written_sections[2].shape = "conical"
    /\ written_sections[2].topHeight = Mm(5)
    /\ written_sections[1].bottomHeight = Mm(5)

\* A hemisphere 3 mm high below a record at 5 mm: the spherical segment ends
\* at 3 mm and the one above it starts at 5 mm.
C26_HemisphereLeavesGap ==
    /\ g_called /\ Len(g_sections) = 3 /\ ~g_result[1].raised
    /\ g_sections[1].type = "SEMI-SPH"
    /\ written_sections[2].shape = "spherical"
    /\ written_sections[2].topHeight < written_sections[1].bottomHeight

==========================================================================
